---- MODULE Spec2Model ----
(***************************************************************************)
(* Model of octoka's key manager (src/src/jwt/keys.rs), token verification *)
(* (src/src/jwt/mod.rs, decode.rs), the authorization decider              *)
(* (src/src/auth.rs) and the request dispatcher (src/src/http/mod.rs).     *)
(*                                                                         *)
(* Time.  One tick is 500 ms.  A tokio `Instant` is kept as the time that  *)
(* has elapsed since it, in ticks: `Instant::now()` is 0, `i.elapsed()` is *)
(* the stored number, and the action Tick advances every stored Instant.   *)
(* An elapsed time saturates at the largest value that any comparison of   *)
(* the code can tell apart.  Synchronous code takes no time: Tick is       *)
(* enabled only while every task is suspended at an `.await`.              *)
(***************************************************************************)
EXTENDS Integers, Sequences, FiniteSets, TLC

None == "None"

Min(a, b) == IF a < b THEN a ELSE b
Max(a, b) == IF a < b THEN b ELSE a

(***************************************************************************)
(* Program constants, in ticks of 500 ms.                                  *)
(***************************************************************************)
BACKGROUND_REFRESH_LEAD_TIME == 6
BACKUP_REFRESH_RATE_LIMIT == 30
JWT_VERIFY_TIMEOUT == 5
\* Duration::from_millis(500) in background_refresh
BACKGROUND_REFRESH_SLACK == 1
\* config.key_cache_duration: the smallest value that is twice the lead time
key_cache_duration == 12

(***************************************************************************)
(* Bounds of the model.                                                    *)
(***************************************************************************)
\* longest key list of one fetched JWKS
MaxKeys == 2
\* number of operations applied in the key-pool specification
MaxPoolOps == 3
\* longest time, in ticks, that one jwks::fetch is pending
MaxFetchTicks == 7

(***************************************************************************)
(* Configuration and the universe of values.                               *)
(***************************************************************************)
\* the JWKS URLs a configuration can name
Urls == {"A", "B"}

Kids == {"k1", "k2"}

\* crypto::Algo
Algos == {"ES256", "ES384"}

\* crypto::Key: the algorithm tag and the public key material
CryptoKeys == {[algo |-> "ES256", mat |-> "m1"], [algo |-> "ES384", mat |-> "m2"]}

\* crypto::Key::algo
algo(key) == key.algo

\* jwks::FetchedKey: a key and its optional kid
FetchedKeys == [key : CryptoKeys, kid : Kids \cup {None}]

\* sequences over S of length at most n
SeqUpTo(S, n) == UNION {[1..m -> S] : m \in 0..n}

\* jwks::FetchedData: what a successful fetch returns
FetchedDatas == [keys : SeqUpTo(FetchedKeys, MaxKeys)]

\* Result<FetchedData>: the outcome of jwks::fetch
FetchResults == {[ok |-> FALSE, data |-> [keys |-> <<>>]]}
                    \cup {[ok |-> TRUE, data |-> d] : d \in FetchedDatas}

(***************************************************************************)
(* Instants as saturating elapsed times.                                   *)
(***************************************************************************)
\* largest age of a KeySource any comparison distinguishes (is_stale, expiry)
SourceAgeCap == key_cache_duration + BACKGROUND_REFRESH_LEAD_TIME
                    + BACKGROUND_REFRESH_SLACK + 1

\* Instant::now()
InstantNow == 0

Older(i, cap) == Min(i + 1, cap)

(***************************************************************************)
(* Keys: the key pool (keys.rs 41-148).                                    *)
(*   with_id    : a function from the kids present to Key                  *)
(*   without_id : a sequence of Key                                        *)
(*   sources    : a sequence of KeySource                                  *)
(* Key is [key, source]; KeySource is [last_fetch, url].                   *)
(***************************************************************************)
KeySource(url, last_fetch) == [last_fetch |-> last_fetch, url |-> url]

\* Keys::empty
EmptyKeys == [with_id |-> [k \in {} |-> None], without_id |-> <<>>, sources |-> <<>>]

\* Keys::len
KeysLen(K) == Cardinality(DOMAIN K.with_id) + Len(K.without_id)

\* KeySource::is_stale
is_stale(src) == src.last_fetch > key_cache_duration

\* KeySource::expiry, as the time left until the expiry (negative when past)
expiry(src) == key_cache_duration - src.last_fetch

\* Vec::retain / HashMap::retain on the source URL
RetainSeq(s, url) == SelectSeq(s, LAMBDA key : key.source.url # url)

\* a prune_keys_of that removes nothing
KeepKeysOf(K, url) == K

\* Keys::prune_keys_of
prune_keys_of(K, url) ==
    [K EXCEPT !.with_id = [k \in {x \in DOMAIN K.with_id : K.with_id[x].source.url # url}
                              |-> K.with_id[k]],
              !.without_id = RetainSeq(K.without_id, url)]

\* an update_source_metadata that drops the record it is given
ForgetSourceMetadata(K, v) == K

\* an update_source_metadata that always pushes the record
PushSourceMetadata(K, v) == [K EXCEPT !.sources = Append(@, v)]

\* Keys::update_source_metadata
update_source_metadata(K, v) ==
    IF \E i \in 1..Len(K.sources) : K.sources[i].url = v.url
    THEN LET i == CHOOSE j \in 1..Len(K.sources) :
                      /\ K.sources[j].url = v.url
                      /\ \A h \in 1..(j-1) : K.sources[h].url # v.url
         IN [K EXCEPT !.sources[i] = v]
    ELSE [K EXCEPT !.sources = Append(@, v)]

\* HashMap::insert: replaces the value of a kid already present
MapInsert(m, k, v) == [x \in DOMAIN m \cup {k} |-> IF x = k THEN v ELSE m[x]]

\* the loop of update_source over data.keys
RECURSIVE InsertKeys(_, _, _)
InsertKeys(K, fetched, source) ==
    IF fetched = <<>> THEN K
    ELSE LET f == Head(fetched)
             v == [key |-> f.key, source |-> source]
             K1 == IF f.kid # None
                   THEN [K EXCEPT !.with_id = MapInsert(@, f.kid, v)]
                   ELSE [K EXCEPT !.without_id = Append(@, v)]
         IN InsertKeys(K1, Tail(fetched), source)

\* Keys::update_source
update_source(K, url, data) ==
    LET source == KeySource(url, InstantNow)
    IN update_source_metadata(InsertKeys(prune_keys_of(K, url), data.keys, source), source)

\* the closure given to rcu in refresh_single: the pool after a fetch result
ApplyFetchResult(K, url, res) ==
    IF res.ok
    THEN update_source(K, url, res.data)
    ELSE update_source_metadata(prune_keys_of(K, url), KeySource(url, InstantNow))

\* every Key of the pool
AllEntries(K) == {K.with_id[k] : k \in DOMAIN K.with_id}
                     \cup {K.without_id[i] : i \in 1..Len(K.without_id)}

\* the pool one tick later: every stored Instant is one tick older
OlderSource(src) == [src EXCEPT !.last_fetch = Older(@, SourceAgeCap)]
OlderKey(key) == [key EXCEPT !.source = OlderSource(@)]
OlderKeys(K) ==
    [with_id |-> [k \in DOMAIN K.with_id |-> OlderKey(K.with_id[k])],
     without_id |-> [i \in 1..Len(K.without_id) |-> OlderKey(K.without_id[i])],
     sources |-> [i \in 1..Len(K.sources) |-> OlderSource(K.sources[i])]]


(***************************************************************************)
(* The system specification: the set of JWKS documents the sources serve,  *)
(* the request slots and the owners of spawned refresh_single tasks.       *)
(***************************************************************************)
Jwks(fetched) == [ok |-> TRUE, data |-> [keys |-> fetched]]
FetchError == [ok |-> FALSE, data |-> [keys |-> <<>>]]

\* what jwks::fetch can return in the system specification
ServedResults ==
    {FetchError, Jwks(<<[key |-> [algo |-> "ES256", mat |-> "m1"], kid |-> "k1"]>>)}

\* the request slots, in the order in which arriving requests take them
ReqSeq == <<"r1", "r2">>
Req == {ReqSeq[i] : i \in 1..Len(ReqSeq)}
Owners == Req \cup {"init", "bg"}

\* one tokio task per call of refresh_single: spawned by an owner for a URL
TaskIds == Owners \X Urls

\* pc: the step of refresh_single; why: which caller of refresh spawned it;
\* age: how long jwks::fetch has been pending; res, seen, out: the locals of
\* the fetching arm; found: try_acquire found a fetch of the URL in flight;
\* owed: the fetch this call has to outlast has not published yet
NoTask == [pc |-> "none", why |-> None, age |-> 0, res |-> FetchError, seen |-> EmptyKeys,
           out |-> EmptyKeys, found |-> FALSE, owed |-> FALSE]

VARIABLES
    keys,                  \* KeyManager.keys: the published pool (ArcSwap<Keys>)
    permits,               \* KeyManager.fetch_guards: free permits of each Semaphore
    sem_queue,             \* KeyManager.fetch_guards: FIFO of tasks waiting in acquire()
    last_backup_refresh,   \* KeyManager.last_backup_refresh: the guarded Instant
    rw,                    \* KeyManager.last_backup_refresh: the RwLock state
    task,                  \* the refresh_single tasks
    main_pc,               \* KeyManager::new / main
    bg,                    \* the background_refresh task
    req,                   \* the request tasks (handle)
    config,                \* the effective configuration (Config), fixed at startup
    call,                  \* the function applied in the specifications of single
                           \* functions: its arguments and what it returned
    server,                \* serve: the connections and the shutdown timer
    pool_ops,              \* operations applied in the key-pool specification
    pool_last,             \* the operation applied last in the key-pool specification
    hist                   \* history variables of the properties

\* config.trusted_keys: the configured JWKS URLs (validated non-empty, unique)
trusted_keys == config.trusted_keys

vars == <<keys, permits, sem_queue, last_backup_refresh, rw, task, main_pc, bg, req,
          config, call, server, pool_ops, pool_last, hist>>

(***************************************************************************)
(* tokio::sync::Semaphore with one permit (fetch_guards).                  *)
(***************************************************************************)
\* dropping a SemaphorePermit: the permit goes to the first queued acquire(),
\* else back to the semaphore.  tk is the task table after the caller's step.
ReleasePermit(tk, url) ==
    IF sem_queue[url] = <<>>
    THEN /\ permits' = [permits EXCEPT ![url] = 1]
         /\ sem_queue' = sem_queue
         /\ task' = tk
    ELSE /\ permits' = permits
         /\ sem_queue' = [sem_queue EXCEPT ![url] = Tail(@)]
         /\ task' = [tk EXCEPT ![Head(sem_queue[url])].pc = "granted"]

\* is the owner suspended in join_all over its spawned tasks?
OwnerAwaits(o) ==
    CASE o = "init" -> main_pc = "init_join"
      [] o = "bg" -> bg.pc = "join"
      [] OTHER -> req[o].pc \in {"await_refresh", "b_join"}

\* a finished task stays until its JoinHandle is polled; a detached one is gone
Finished(t) ==
    IF OwnerAwaits(t[1]) THEN [NoTask EXCEPT !.pc = "done", !.found = task[t].found] ELSE NoTask

\* refresh: tokio::spawn of refresh_single for each given source
Spawn(tk, owner, urls, why) ==
    [t \in TaskIds |-> IF t[1] = owner /\ t[2] \in urls
                       THEN [NoTask EXCEPT !.pc = "start", !.why = why] ELSE tk[t]]

\* join_all(fetch_tasks) is ready
Joined(owner, urls) == \A u \in urls : task[<<owner, u>>].pc = "done"

\* the JoinHandles are consumed
Reap(tk, owner) == [t \in TaskIds |-> IF t[1] = owner /\ tk[t].pc = "done" THEN NoTask ELSE tk[t]]

(***************************************************************************)
(* KeyManager::refresh_single (keys.rs 198-240), one action per step.      *)
(***************************************************************************)
\* semaphore.try_acquire()
\* a fetch of the URL has begun and its result is not in the pool yet
Unpublished(url) == \E t \in TaskIds : t[2] = url /\ task[t].pc \in {"fetch", "rcu", "cas"}

\* a try_acquire that succeeds whether or not a permit is left
GotPermitAlways(t) == TRUE

\* the try_acquire of refresh_single finds a permit
GotPermit(t) == permits[t[2]] = 1

TryAcquire(t) ==
    /\ task[t].pc = "start"
    /\ IF GotPermit(t)
       THEN /\ permits' = [permits EXCEPT ![t[2]] = 0]
            /\ task' = [task EXCEPT ![t].pc = "fetch", ![t].owed = TRUE]
            /\ hist' = IF task[t].why = "backup"
                       THEN [hist EXCEPT !.bfetch[t[2]] = [open |-> TRUE, age |-> 0]]
                       ELSE hist
       ELSE /\ permits' = permits
            /\ task' = [task EXCEPT ![t].pc = "acquire", ![t].found = Unpublished(t[2]),
                                    ![t].owed = Unpublished(t[2])]
            /\ hist' = hist
    /\ UNCHANGED <<keys, sem_queue, last_backup_refresh, rw, main_pc, bg, req,
                   config, call, server, pool_ops, pool_last>>

\* an acquire that does not wait for the permit to come back
PermitFreeAlways(t) == TRUE

\* semaphore.acquire() finds a permit at once
PermitFree(t) == permits[t[2]] = 1

\* semaphore.acquire().await after NoPermits: take a free permit or queue
Acquire(t) ==
    /\ task[t].pc = "acquire"
    /\ IF PermitFree(t)
       THEN /\ permits' = [permits EXCEPT ![t[2]] = 0]
            /\ sem_queue' = sem_queue
            /\ task' = [task EXCEPT ![t].pc = "granted"]
       ELSE /\ permits' = permits
            /\ sem_queue' = [sem_queue EXCEPT ![t[2]] = Append(@, t)]
            /\ task' = [task EXCEPT ![t].pc = "wait"]
    /\ UNCHANGED <<keys, last_backup_refresh, rw, main_pc, bg, req,
                   config, call, server, pool_ops, pool_last, hist>>

\* `let _ = semaphore.acquire().await`: the permit is dropped at once
DropWaitedPermit(t) ==
    /\ task[t].pc = "granted"
    /\ ReleasePermit([task EXCEPT ![t] = Finished(t)], t[2])
    /\ hist' = IF task[t].owed THEN [hist EXCEPT !.early = @ \cup {t}] ELSE hist
    /\ UNCHANGED <<keys, last_backup_refresh, rw, main_pc, bg, req,
                   config, call, server, pool_ops, pool_last>>

\* jwks::fetch(source).await completes with `res`; keys.rcu loads the current
\* pool and runs the closure on a clone of it
FetchDone(t, res) ==
    /\ task[t].pc = "fetch"
    /\ task' = [task EXCEPT ![t].pc = "cas", ![t].res = res, ![t].age = 0, ![t].seen = keys,
                            ![t].out = ApplyFetchResult(keys, t[2], res)]
    /\ UNCHANGED <<keys, permits, sem_queue, last_backup_refresh, rw, main_pc, bg, req,
                   config, call, server, pool_ops, pool_last, hist>>

\* keys.rcu after a failed swap: load the pool again and rerun the closure
RcuLoad(t) ==
    /\ task[t].pc = "rcu"
    /\ task' = [task EXCEPT ![t].pc = "cas", ![t].seen = keys,
                            ![t].out = ApplyFetchResult(keys, t[2], task[t].res)]
    /\ UNCHANGED <<keys, permits, sem_queue, last_backup_refresh, rw, main_pc, bg, req,
                   config, call, server, pool_ops, pool_last, hist>>

\* a store that does not compare
RcuSwapsAlways(t) == TRUE

\* keys.rcu: compare-and-swap; does the swap go through?
RcuSwaps(t) == keys = task[t].seen

\* keys.rcu: publish the clone if the pool is still the loaded one, else retry
RcuCas(t) ==
    /\ task[t].pc = "cas"
    /\ IF RcuSwaps(t)
       THEN /\ keys' = task[t].out
            /\ task' = [x \in TaskIds |->
                           IF x = t THEN [task[t] EXCEPT !.pc = "release", !.res = FetchError,
                                                         !.seen = EmptyKeys, !.out = EmptyKeys,
                                                         !.owed = FALSE]
                           ELSE IF x[2] = t[2] THEN [task[x] EXCEPT !.owed = FALSE]
                           ELSE task[x]]
       ELSE /\ keys' = keys
            /\ task' = [task EXCEPT ![t].pc = "rcu", ![t].seen = EmptyKeys, ![t].out = EmptyKeys]
    /\ hist' = IF RcuSwaps(t)
               THEN [hist EXCEPT !.applied[t[2]] = [set |-> TRUE, res |-> task[t].res]]
               ELSE hist
    /\ UNCHANGED <<permits, sem_queue, last_backup_refresh, rw, main_pc, bg, req,
                   config, call, server, pool_ops, pool_last>>

\* end of the `Ok(_permit)` arm: the permit is dropped
DropPermit(t) ==
    /\ task[t].pc = "release"
    /\ ReleasePermit([task EXCEPT ![t] = Finished(t)], t[2])
    /\ hist' = IF task[t].owed THEN [hist EXCEPT !.early = @ \cup {t}] ELSE hist
    /\ UNCHANGED <<keys, last_backup_refresh, rw, main_pc, bg, req,
                   config, call, server, pool_ops, pool_last>>


(***************************************************************************)
(* KeyManager::new (keys.rs 159-187) and main (main.rs 42-46).             *)
(***************************************************************************)
\* `this.refresh(&config.trusted_keys)`: the initial fetch of all sources
InitRefresh ==
    /\ main_pc = "new"
    /\ main_pc' = "init_join"
    /\ task' = Spawn(task, "init", trusted_keys, "init")
    /\ UNCHANGED <<keys, permits, sem_queue, last_backup_refresh, rw, bg, req,
                   config, call, server, pool_ops, pool_last, hist>>

\* a KeyManager::new that does not await the initial refresh
InitJoinedAtOnce == TRUE

\* `this.refresh(&config.trusted_keys).await` is ready
InitJoined == Joined("init", trusted_keys)

\* the initial refresh returned: spawn the background task, then serve
InitDone ==
    /\ main_pc = "init_join"
    /\ InitJoined
    /\ main_pc' = "serving"
    /\ task' = Reap(task, "init")
    /\ bg' = IF config.background_key_refresh THEN [bg EXCEPT !.pc = "top"] ELSE bg
    /\ UNCHANGED <<keys, permits, sem_queue, last_backup_refresh, rw, req,
                   config, call, server, pool_ops, pool_last, hist>>

(***************************************************************************)
(* KeyManager::background_refresh (keys.rs 296-325).                       *)
(***************************************************************************)
\* the expiry of the source that expires last
LastExpiry(K) ==
    CHOOSE e \in {expiry(K.sources[i]) : i \in 1..Len(K.sources)} :
        \A i \in 1..Len(K.sources) : e >= expiry(K.sources[i])

\* min over the sources of src.expiry(config), as time left
NextExpiry(K) ==
    CHOOSE e \in {expiry(K.sources[i]) : i \in 1..Len(K.sources)} :
        \A i \in 1..Len(K.sources) : e <= expiry(K.sources[i])

\* the sources background_refresh passes to refresh: expiry > threshold, where
\* threshold = Instant::now() - BACKGROUND_REFRESH_LEAD_TIME - 500 ms
ToBeRefreshed(K) ==
    {K.sources[i].url : i \in {j \in 1..Len(K.sources) :
        expiry(K.sources[j]) > 0 - BACKGROUND_REFRESH_LEAD_TIME - BACKGROUND_REFRESH_SLACK}}

\* top of the loop: find the next expiry and sleep_until(next_expiry - lead time)
BgLoopTop ==
    /\ bg.pc = "top"
    /\ IF keys.sources = <<>>
       THEN bg' = [bg EXCEPT !.pc = "panicked"]
       ELSE bg' = [pc |-> "sleep", round |-> {},
                   sleep |-> Max(0, NextExpiry(keys) - BACKGROUND_REFRESH_LEAD_TIME)]
    /\ UNCHANGED <<keys, permits, sem_queue, last_backup_refresh, rw, task, main_pc, req,
                   config, call, server, pool_ops, pool_last, hist>>

\* the sleep is over: refresh the sources chosen from the current pool
BgWake ==
    /\ bg.pc = "sleep"
    /\ bg.sleep = 0
    /\ bg' = [bg EXCEPT !.pc = "join", !.round = ToBeRefreshed(keys)]
    /\ task' = Spawn(task, "bg", ToBeRefreshed(keys), "bg")
    /\ UNCHANGED <<keys, permits, sem_queue, last_backup_refresh, rw, main_pc, req,
                   config, call, server, pool_ops, pool_last, hist>>

\* refresh returned: next iteration
BgJoin ==
    /\ bg.pc = "join"
    /\ Joined("bg", bg.round)
    /\ bg' = [bg EXCEPT !.pc = "top"]
    /\ task' = Reap(task, "bg")
    /\ UNCHANGED <<keys, permits, sem_queue, last_backup_refresh, rw, main_pc, req,
                   config, call, server, pool_ops, pool_last, hist>>


(***************************************************************************)
(* tokio::sync::RwLock around last_backup_refresh: a fair lock, waiters    *)
(* are served in FIFO order and a queued waiter blocks later try_read.     *)
(*   writer: the holder of the write guard, readers: holders of read       *)
(*   guards, queue: the waiting [who, write] in order of arrival.          *)
(***************************************************************************)
FreeLock == [writer |-> None, readers |-> {}, queue |-> <<>>]

\* RwLock::try_read succeeds
CanRead(l) == l.writer = None /\ l.queue = <<>>

\* RwLock::write is granted at once
CanWrite(l) == l.writer = None /\ l.readers = {} /\ l.queue = <<>>

\* after permits came back: serve the queue from its head
RECURSIVE GrantQueue(_)
GrantQueue(l) ==
    IF l.queue = <<>> \/ l.writer # None THEN l
    ELSE LET h == Head(l.queue)
         IN IF h.write
            THEN IF l.readers = {}
                 THEN [l EXCEPT !.writer = h.who, !.queue = Tail(@)]
                 ELSE l
            ELSE GrantQueue([l EXCEPT !.readers = @ \cup {h.who}, !.queue = Tail(@)])

\* a guard of `who` is dropped, or its pending read()/write() future is dropped
Unlock(l, who) ==
    GrantQueue([writer |-> IF l.writer = who THEN None ELSE l.writer,
                readers |-> l.readers \ {who},
                queue |-> SelectSeq(l.queue, LAMBDA w : w.who # who)])

(***************************************************************************)
(* Strings are sequences of one-character strings; a Rust byte index i is   *)
(* position i + 1 of the sequence.                                          *)
(***************************************************************************)
\* longest request path of the path specification
MaxPathLen == 11

\* the characters of request paths
Chars == {"/", "s"}

\* the request paths
Paths == UNION {[1..n -> Chars] : n \in 0..MaxPathLen}

\* str::starts_with
starts_with(str, pat) == Len(pat) <= Len(str) /\ SubSeq(str, 1, Len(pat)) = pat

\* str::trim_matches('/')
RECURSIVE trim_matches(_)
trim_matches(str) ==
    CASE str = <<>> -> str
      [] str # <<>> /\ Head(str) = "/" -> trim_matches(Tail(str))
      [] str # <<>> /\ Head(str) # "/" /\ str[Len(str)] = "/" ->
             trim_matches(SubSeq(str, 1, Len(str) - 1))
      [] OTHER -> str

\* &path[from..], &path[from..to]: the slice, or a panic when from is past the
\* end or past `to`
SliceFrom(str, from) ==
    IF from > Len(str) THEN [panic |-> TRUE, str |-> <<>>]
    ELSE [panic |-> FALSE, str |-> SubSeq(str, from + 1, Len(str))]

Slice(str, from, to) ==
    IF from > to \/ to > Len(str) THEN [panic |-> TRUE, str |-> <<>>]
    ELSE [panic |-> FALSE, str |-> SubSeq(str, from + 1, to)]

\* the closure find_after of PathParts::parse: the index of the first '/'
\* after index `start`; kind is "some", "none" or "panic"
find_after(path, start) ==
    LET rest == SliceFrom(path, start + 1)
        hits == {i \in 1..Len(rest.str) : rest.str[i] = "/"}
    IN CASE rest.panic -> [kind |-> "panic", at |-> 0]
         [] ~rest.panic /\ hits = {} -> [kind |-> "none", at |-> 0]
         [] OTHER -> [kind |-> "some",
                      at |-> (CHOOSE i \in hits : \A j \in hits : i <= j) - 1 + start + 1]

\* what PathParts::parse gives when it returns None or panics
NoParts(kind) ==
    [kind |-> kind, path |-> <<>>, start_org |-> 0, start_channel |-> 0,
     start_event_id |-> 0, start_suffix |-> 0]

\* PathParts::parse: kind "some" with the parts, "none", or "panic"
parse(path, path_prefixes) ==
    IF path = <<>> \/ Head(path) # "/" THEN NoParts("none")
    ELSE LET fits == {i \in 1..Len(path_prefixes) :
                         starts_with(Tail(path), trim_matches(path_prefixes[i]))}
         IN IF fits = {} THEN NoParts("none")
            ELSE LET prefix == trim_matches(path_prefixes[CHOOSE i \in fits : \A j \in fits : i <= j])
                     start_org == Len(prefix) + 1
                     ch == find_after(path, start_org)
                     ev == find_after(path, ch.at)
                     su == find_after(path, ev.at)
                 IN CASE ch.kind # "some" -> NoParts(ch.kind)
                      [] ch.kind = "some" /\ ev.kind # "some" -> NoParts(ev.kind)
                      [] ch.kind = "some" /\ ev.kind = "some" /\ su.kind # "some" ->
                             NoParts(su.kind)
                      [] OTHER -> [kind |-> "some", path |-> path, start_org |-> start_org,
                                   start_channel |-> ch.at, start_event_id |-> ev.at,
                                   start_suffix |-> su.at]

\* the accessors of PathParts
full_path(pp) == pp.path
prefix(pp) == Slice(pp.path, 1, pp.start_org).str
without_prefix(pp) == SliceFrom(pp.path, pp.start_org + 1).str
org(pp) == Slice(pp.path, pp.start_org + 1, pp.start_channel).str
channel(pp) == Slice(pp.path, pp.start_channel + 1, pp.start_event_id).str
event_id(pp) == Slice(pp.path, pp.start_event_id + 1, pp.start_suffix).str
suffix(pp) == SliceFrom(pp.path, pp.start_suffix + 1).str

(***************************************************************************)
(* Tokens and requests.                                                    *)
(***************************************************************************)
\* the path of the requests (req.uri().path())
RequestPath == <<"/", "s", "/", "o", "/", "c", "/", "e", "/", "f">>

\* opencast.path_prefixes, and the redirect prefixes of http.on_allow and
\* http.on_deny
path_prefixes == <<(<<"/", "s">>)>>
ProtectedPrefix == <<"/", "p">>
DeniedPrefix == <<"/", "d", "/">>

\* the event id of the request path (PathParts::event_id)
PathEvent == event_id(parse(RequestPath, path_prefixes))

\* a token that verifies against key m1 published under kid k1 and grants e1
GoodToken ==
    [header |-> "ok", alg |-> "ES256", kid |-> "k1", sig |-> "ok", signer |-> "m1",
     payload |-> "ok", time |-> "ok", admin |-> FALSE, events |-> {<<"e">>}]

\* a request in which no JwtSource finds a token
NoToken == [GoodToken EXCEPT !.header = "absent"]

\* the raw tokens of the system specification
Tokens == {GoodToken}

AllTokens ==
    {NoToken,
     GoodToken,
     [GoodToken EXCEPT !.events = {<<"x">>}],
     [GoodToken EXCEPT !.events = {}, !.admin = TRUE],
     [GoodToken EXCEPT !.header = "not_three_parts"],
     [GoodToken EXCEPT !.header = "bad_json"],
     [GoodToken EXCEPT !.alg = "RS256"],
     [GoodToken EXCEPT !.sig = "bad_base64"],
     [GoodToken EXCEPT !.alg = "ES384"],
     [GoodToken EXCEPT !.time = "exp_missing"],
     [GoodToken EXCEPT !.time = "expired"],
     [GoodToken EXCEPT !.time = "not_yet"],
     [GoodToken EXCEPT !.signer = "mx", !.admin = TRUE],
     [GoodToken EXCEPT !.signer = "mx", !.kid = "k2", !.admin = TRUE],
     [GoodToken EXCEPT !.signer = "mx", !.kid = None, !.admin = TRUE]}

\* crypto::Key::verify: the signature was made with this key's private half
verify(key, tok) == key.mat = tok.signer

\* decode_and_verify up to the call of verify_signature, and the head of
\* verify_signature: "ok" or the JwtError
DecodeHeader(tok) ==
    CASE tok.header \in {"not_three_parts", "bad_base64"} -> "InvalidJwt"
      [] tok.header = "bad_json" -> "InvalidJson"
      [] tok.alg \notin Algos -> "UnsupportedAlg"
      [] tok.sig = "bad_base64" -> "InvalidJwt"
      [] OTHER -> "ok"

\* Context::verify_claims
verify_claims(tok) ==
    CASE tok.time = "exp_missing" -> "ExpMissing"
      [] tok.time = "expired" -> "Expired"
      [] tok.time = "not_yet" -> "NotValidYet"
      [] OTHER -> "ok"

\* decode_and_verify after verify_signature returned Ok
DecodePayload(tok) ==
    CASE tok.payload = "bad_base64" -> "InvalidJwt"
      [] tok.payload = "bad_json" -> "InvalidJson"
      [] OTHER -> verify_claims(tok)

\* a keys_for that does not filter the other keys by algorithm
keys_for_any_algo(K, kid, alg) ==
    LET perfect == kid # None /\ kid \in DOMAIN K.with_id
        without_ids == IF perfect THEN {}
                       ELSE {K.without_id[i] : i \in 1..Len(K.without_id)}
        with_ids == IF kid = None THEN {K.with_id[k] : k \in DOMAIN K.with_id} ELSE {}
        rest == without_ids \cup with_ids
    IN IF perfect /\ algo(K.with_id[kid].key) # alg
       THEN [err |-> TRUE, cands |-> {}]
       ELSE [err |-> FALSE,
             cands |-> (IF perfect THEN {[key |-> K.with_id[kid], kid_match |-> TRUE]} ELSE {})
                          \cup {[key |-> key, kid_match |-> FALSE] : key \in rest}]

\* Keys::keys_for: AlgoMismatch, or the candidate keys with their kid_match flag
keys_for(K, kid, alg) ==
    LET perfect == kid # None /\ kid \in DOMAIN K.with_id
        without_ids == IF perfect THEN {}
                       ELSE {K.without_id[i] : i \in 1..Len(K.without_id)}
        with_ids == IF kid = None THEN {K.with_id[k] : k \in DOMAIN K.with_id} ELSE {}
        rest == {key \in without_ids \cup with_ids : algo(key.key) = alg}
    IN IF perfect /\ algo(K.with_id[kid].key) # alg
       THEN [err |-> TRUE, cands |-> {}]
       ELSE [err |-> FALSE,
             cands |-> (IF perfect THEN {[key |-> K.with_id[kid], kid_match |-> TRUE]} ELSE {})
                          \cup {[key |-> key, kid_match |-> FALSE] : key \in rest}]

\* a try_verify! that ignores the failure of a kid match
TryKeysWithoutKidMatch(tries, tok) ==
    IF \E c \in tries : verify(c.key.key, tok) THEN "ok" ELSE "continue"

\* one loop of try_verify! over the candidates in `tries`: Ok on a key that
\* verifies, InvalidSignature on a failing kid match, else go on
TryKeys(tries, tok) ==
    CASE \E c \in tries : verify(c.key.key, tok) -> "ok"
      [] \E c \in tries : c.kid_match -> "InvalidSignature"
      [] OTHER -> "continue"

\* a fast pass that tells the algorithm mismatch of a stale entry only after
\* its source is refreshed
FirstPassRefreshingMismatch(K, tok) ==
    LET kf == keys_for(K, tok.kid, tok.alg)
        fresh == {c \in kf.cands : ~is_stale(c.key.source)}
    IN IF kf.err /\ is_stale(K.with_id[tok.kid].source)
       THEN [out |-> "continue", tried |-> FALSE, tries |-> {},
             stale |-> {K.with_id[tok.kid].source.url}]
       ELSE [out |-> IF kf.err THEN "AlgoMismatch" ELSE TryKeys(fresh, tok),
             tried |-> fresh # {},
             tries |-> fresh,
             stale |-> {c.key.source.url : c \in kf.cands \ fresh}]

\* a fast pass that takes every candidate for stale
FirstPassRefreshingAll(K, tok) ==
    LET kf == keys_for(K, tok.kid, tok.alg)
    IN [out |-> IF kf.err THEN "AlgoMismatch" ELSE "continue",
        tried |-> FALSE,
        tries |-> {},
        stale |-> {c.key.source.url : c \in kf.cands}]

\* the fast pass of verify_signature over a loaded pool
FirstPass(K, tok) ==
    LET kf == keys_for(K, tok.kid, tok.alg)
        fresh == {c \in kf.cands : ~is_stale(c.key.source)}
    IN [out |-> IF kf.err THEN "AlgoMismatch" ELSE TryKeys(fresh, tok),
        tried |-> fresh # {},
        tries |-> fresh,
        stale |-> {c.key.source.url : c \in kf.cands \ fresh}]

\* the pass after refresh(stale_sources): keys of the sources just refreshed
SecondPass(K, tok, stale) ==
    LET kf == keys_for(K, tok.kid, tok.alg)
        tries == {c \in kf.cands : c.key.source.url \in stale}
    IN [out |-> IF kf.err THEN "AlgoMismatch" ELSE TryKeys(tries, tok),
        tried |-> tries # {},
        tries |-> tries]

\* the pass after backup_refresh returned true: keys of the other sources
ThirdPass(K, tok, stale) ==
    LET kf == keys_for(K, tok.kid, tok.alg)
        tries == {c \in kf.cands : c.key.source.url \notin stale}
    IN [out |-> IF kf.err THEN "AlgoMismatch" ELSE TryKeys(tries, tok),
        tried |-> tries # {},
        tries |-> tries]

\* an end of verify_signature that forgets whether a key was tried
NoSuitableKeyAlways(tried) == "NoSuitableKey"

\* the end of verify_signature
NoKeyVerified(tried) == IF tried THEN "InvalidSignature" ELSE "NoSuitableKey"


(***************************************************************************)
(* handle (http/mod.rs 37-119) with add_cors_headers (http/mod.rs 122-181), *)
(* is_allowed (auth.rs 8-45) and ask_opencast (http/mod.rs 183-232).       *)
(***************************************************************************)
\* tokio::time::sleep(Duration::from_secs(3)) in ask_opencast
ASK_OPENCAST_TIMEOUT == 6

\* PathParts::full_path and PathParts::without_prefix of the request path
FullPath == full_path(parse(RequestPath, path_prefixes))
WithoutPrefix == without_prefix(parse(RequestPath, path_prefixes))

\* error_response(status)
error_response(status) == [status |-> status, x_accel |-> <<>>, cors |-> {}]

\* a header the request does not carry, and one it carries: the value that
\* headers().get() returns, as its comma-separated items
NoHeader == [some |-> FALSE, items |-> <<>>]
HeaderOf(items) == [some |-> TRUE, items |-> items]

\* <[u8]>::trim_ascii, and the ASCII lower case that eq_ignore_ascii_case
\* compares, on the items "Authorization", " authorization", "X-Custom", ""
trim_ascii(item) == IF item = " authorization" THEN "authorization" ELSE item
to_ascii_lowercase(item) ==
    CASE item = "Authorization" -> "authorization"
      [] item = "X-Custom" -> "x-custom"
      [] OTHER -> item
eq_ignore_ascii_case(a, b) == to_ascii_lowercase(a) = to_ascii_lowercase(b)

\* the headers that add_cors_headers adds for an allowed origin
CorsHeaders(origin) ==
    {<<"Access-Control-Allow-Origin", origin>>,
     <<"Access-Control-Allow-Credentials", "true">>,
     <<"Access-Control-Allow-Methods", "GET, OPTIONS">>,
     <<"Access-Control-Allow-Headers", "Authorization">>,
     <<"Access-Control-Max-Age", "86400">>}

\* an add_cors_headers that does not look at the requested method of a
\* preflight
add_cors_headers_any_method(h, cfg) ==
    CASE h.origin = None \/ h.origin \notin cfg.cors_allowed_origins -> {}
      [] h.origin # None /\ h.origin \in cfg.cors_allowed_origins /\ h.method = "OPTIONS"
         /\ ~(/\ h.acrh.some
              /\ \A i \in 1..Len(h.acrh.items) :
                     eq_ignore_ascii_case(trim_ascii(h.acrh.items[i]), "Authorization")) -> {}
      [] OTHER -> CorsHeaders(h.origin)

\* add_cors_headers(req, response, config): the headers it adds to the response
add_cors_headers(h, cfg) ==
    CASE h.origin = None \/ h.origin \notin cfg.cors_allowed_origins -> {}
      [] h.origin # None /\ h.origin \in cfg.cors_allowed_origins /\ h.method = "OPTIONS"
         /\ ~(/\ h.acrh.some
              /\ \A i \in 1..Len(h.acrh.items) :
                     eq_ignore_ascii_case(trim_ascii(h.acrh.items[i]), "Authorization")) -> {}
      [] h.origin # None /\ h.origin \in cfg.cors_allowed_origins /\ h.method = "OPTIONS"
         /\ h.acrm # "GET" -> {}
      [] OTHER -> CorsHeaders(h.origin)

\* a GET of the request path without CORS headers
PlainGet ==
    [method |-> "GET", path |-> RequestPath, origin |-> None, acrh |-> NoHeader,
     acrm |-> None]

(***************************************************************************)
(* serve_file (http/fs.rs 16-126).  A filesystem path is the sequence of   *)
(* its components from the root; times are in units of 500 ms.             *)
(***************************************************************************)
\* the parts of a string between its slashes
RECURSIVE split(_)
split(str) ==
    LET hits == {i \in 1..Len(str) : str[i] = "/"}
    IN IF hits = {} THEN <<str>>
       ELSE LET first == CHOOSE i \in hits : \A j \in hits : i <= j
            IN <<SubSeq(str, 1, first - 1)>> \o split(SubSeq(str, first + 1, Len(str)))

\* Path::components of an absolute or relative path: empty parts and "." are
\* skipped, ".." is kept
Components(str) == SelectSeq(split(str), LAMBDA c : c # <<>> /\ c # <<".">>)

\* Path::join: an absolute path replaces the base
join(base, str) ==
    IF str # <<>> /\ Head(str) = "/" THEN Components(str) ELSE base \o Components(str)

\* Path::starts_with: whole components
path_starts_with(path, base) ==
    Len(base) <= Len(path) /\ SubSeq(path, 1, Len(base)) = base

\* PathParts::rel_event_dir: org, channel and event id as they stand in the
\* request path
rel_event_dir(pp) == Slice(pp.path, pp.start_org + 1, pp.start_suffix).str

\* the size of the files
FileSize == 3

\* the bytes of the file with this name
Bytes(name) == [i \in 1..FileSize |-> <<name, i>>]

\* opencast.downloads_path, canonical
downloads_path == <<(<<"d">>)>>

\* the files of the machine: the event e with the file f and the symbolic
\* link l to the file g of the event x, and outside the downloads directory
\* the file /c/e/f
Nodes ==
    {[path |-> <<>>, kind |-> "dir", target |-> <<>>, data |-> <<>>, ino |-> 1],
     [path |-> <<(<<"d">>)>>, kind |-> "dir", target |-> <<>>, data |-> <<>>, ino |-> 2],
     [path |-> <<(<<"d">>), (<<"o">>)>>, kind |-> "dir", target |-> <<>>, data |-> <<>>,
      ino |-> 3],
     [path |-> <<(<<"d">>), (<<"o">>), (<<"c">>)>>, kind |-> "dir", target |-> <<>>,
      data |-> <<>>, ino |-> 4],
     [path |-> <<(<<"d">>), (<<"o">>), (<<"c">>), (<<"e">>)>>, kind |-> "dir",
      target |-> <<>>, data |-> <<>>, ino |-> 5],
     [path |-> <<(<<"d">>), (<<"o">>), (<<"c">>), (<<"e">>), (<<"f">>)>>, kind |-> "file",
      target |-> <<>>, data |-> Bytes("f"), ino |-> 6],
     [path |-> <<(<<"d">>), (<<"o">>), (<<"c">>), (<<"e">>), (<<"l">>)>>, kind |-> "link",
      target |-> <<(<<"d">>), (<<"o">>), (<<"c">>), (<<"x">>), (<<"g">>)>>, data |-> <<>>,
      ino |-> 7],
     [path |-> <<(<<"d">>), (<<"o">>), (<<"c">>), (<<"x">>)>>, kind |-> "dir",
      target |-> <<>>, data |-> <<>>, ino |-> 8],
     [path |-> <<(<<"d">>), (<<"o">>), (<<"c">>), (<<"x">>), (<<"g">>)>>, kind |-> "file",
      target |-> <<>>, data |-> Bytes("g"), ino |-> 9],
     [path |-> <<(<<"c">>)>>, kind |-> "dir", target |-> <<>>, data |-> <<>>, ino |-> 10],
     [path |-> <<(<<"c">>), (<<"e">>)>>, kind |-> "dir", target |-> <<>>, data |-> <<>>,
      ino |-> 11],
     [path |-> <<(<<"c">>), (<<"e">>), (<<"f">>)>>, kind |-> "file", target |-> <<>>,
      data |-> Bytes("s"), ino |-> 12]}

Exists(path) == \E n \in Nodes : n.path = path
Node(path) == CHOOSE n \in Nodes : n.path = path

\* Path::canonicalize (realpath): every component must exist, symbolic
\* links are followed, ".." leaves the directory reached so far
RECURSIVE Resolve(_, _)
Resolve(at, rest) ==
    IF rest = <<>> THEN [err |-> "none", path |-> at]
    ELSE LET c == Head(rest)
             next == Append(at, c)
         IN CASE Node(at).kind # "dir" -> [err |-> "NotADirectory", path |-> <<>>]
              [] Node(at).kind = "dir" /\ c = <<".", ".">> ->
                     Resolve(IF at = <<>> THEN at ELSE SubSeq(at, 1, Len(at) - 1), Tail(rest))
              [] Node(at).kind = "dir" /\ c # <<".", ".">> /\ ~Exists(next) ->
                     [err |-> "NotFound", path |-> <<>>]
              [] Node(at).kind = "dir" /\ c # <<".", ".">> /\ Exists(next)
                 /\ Node(next).kind = "link" -> Resolve(Node(next).target, Tail(rest))
              [] OTHER -> Resolve(next, Tail(rest))

canonicalize(path) == Resolve(<<>>, path)

\* the response of serve_file: status, Last-Modified (seconds, -1 when not
\* set), ETag, Content-Length (-1 when not set), Content-Range (first, last,
\* size), the CORS headers and the bytes of the body
FileErrorResponse(status) ==
    [status |-> status, last_modified |-> 0 - 1, etag |-> <<>>, content_length |-> 0 - 1,
     content_range |-> <<>>, cors |-> {}, body |-> <<>>]

\* handle_io_error
handle_io_error(kind) ==
    CASE kind \in {"NotFound", "IsADirectory"} -> FileErrorResponse(404)
      [] kind \in {"InvalidData", "InvalidFilename"} -> FileErrorResponse(400)
      [] kind \in {"TimedOut", "ResourceBusy"} -> FileErrorResponse(503)
      [] OTHER -> FileErrorResponse(500)

\* httpdate::fmt_http_date: whole seconds; httpdate::parse_http_date
fmt_http_date(time) == time \div 2
parse_http_date(secs) == secs * 2

\* etag(mtime, size, metadata): "{mtime_ms}:{size}:{ino}"
etag(mtime, size, ino) == <<mtime * 500, size, ino>>

\* is_unmodified(headers, etag, mtime); the items of If-None-Match are its
\* comma-separated parts, trimmed, `weak` telling a W/ prefix
is_unmodified(h, tag, mtime) ==
    CASE h.if_none_match.some ->
             \/ h.if_none_match.star
             \/ \E i \in 1..Len(h.if_none_match.items) : h.if_none_match.items[i].tag = tag
      [] ~h.if_none_match.some /\ h.if_modified_since.some /\ h.if_modified_since.valid ->
             mtime < parse_http_date(h.if_modified_since.secs)
      [] OTHER -> FALSE

\* a range answer whose Content-Range ends one byte late
RangeResponseLate(head, range, data) ==
    [head EXCEPT !.status = 206, !.content_length = range.length,
                 !.content_range = <<range.start, range.start + range.length, Len(data)>>,
                 !.body = SubSeq(data, range.start + 1, range.start + range.length)]

\* the 206 answer of serve_file to the one range that HttpRange::parse_bytes
\* returned: seek(range.start), take(range.length)
RangeResponse(head, range, data) ==
    [head EXCEPT !.status = 206, !.content_length = range.length,
                 !.content_range = <<range.start, range.start + range.length - 1, Len(data)>>,
                 !.body = SubSeq(data, range.start + 1, range.start + range.length)]

\* `fs_path.starts_with(&event_dir)` of serve_file
InEventDir(fs_path, event_dir) == path_starts_with(fs_path, event_dir)

\* serve_file(path, req, ctx); h: the headers of the request, the outcome
\* of HttpRange::parse_bytes for its Range header, and the mtime of the file
serve_file(parts, h, cfg) ==
    LET fs_path == canonicalize(join(downloads_path, without_prefix(parts)))
        event_dir == join(downloads_path, rel_event_dir(parts))
    IN CASE fs_path.err # "none" -> handle_io_error(fs_path.err)
         [] fs_path.err = "none" /\ ~InEventDir(fs_path.path, event_dir) ->
                FileErrorResponse(400)
         [] OTHER ->
                LET file == Node(fs_path.path)
                    file_size == Len(file.data)
                    tag == etag(h.mtime, file_size, file.ino)
                    head == [status |-> 200, last_modified |-> fmt_http_date(h.mtime),
                             etag |-> tag, content_length |-> 0 - 1, content_range |-> <<>>,
                             cors |-> add_cors_headers(h, cfg), body |-> <<>>]
                IN CASE is_unmodified(h, tag, h.mtime) -> [head EXCEPT !.status = 304]
                     [] ~is_unmodified(h, tag, h.mtime) /\ h.range.kind = "absent" ->
                            [head EXCEPT !.content_length = file_size, !.body = file.data]
                     [] ~is_unmodified(h, tag, h.mtime) /\ h.range.kind = "ok"
                        /\ Len(h.range.ranges) = 1 ->
                            RangeResponse(head, h.range.ranges[1], file.data)
                     [] ~is_unmodified(h, tag, h.mtime) /\ h.range.kind = "NoOverlap" ->
                            FileErrorResponse(416)
                     [] OTHER -> FileErrorResponse(400)

\* request paths that PathParts::parse does not accept
BadPaths ==
    {<<"/", "s">>, <<"/", "s", "/", "o">>, <<"/", "x", "/", "o", "/", "c", "/", "e", "/", "f">>}

\* PathParts::parse(req.uri().path(), &ctx.config.opencast) for the paths of
\* the requests
ParsedPath == [path \in {RequestPath} \cup BadPaths |-> parse(path, path_prefixes)]

\* a dispatcher that lets the panic unwind: the connection task ends and the
\* client gets no response
handle_internal_errors_unwinding(out) == out.resp

\* handle_internal_errors(future): catch_unwind around the handler; a panic
\* becomes the response 500
handle_internal_errors(out) == IF out.panic THEN error_response(500) ELSE out.resp

\* the start of handle: the response to a request that is not a GET of a
\* parsable path (a panic of PathParts::parse is answered by
\* handle_internal_errors), or that the request goes on to is_allowed
MethodAndPath(h, cfg) ==
    LET parts == ParsedPath[h.path]
    IN CASE h.method = "OPTIONS" ->
                [done |-> TRUE,
                 resp |-> [status |-> 204, x_accel |-> <<>>, cors |-> add_cors_headers(h, cfg)]]
         [] h.method \notin {"OPTIONS", "GET"} ->
                [done |-> TRUE, resp |-> error_response(405)]
         [] h.method = "GET" /\ parts.kind = "none" ->
                [done |-> TRUE, resp |-> error_response(400)]
         [] h.method = "GET" /\ parts.kind = "panic" ->
                [done |-> TRUE,
                 resp |-> handle_internal_errors([panic |-> TRUE, resp |-> error_response(0)])]
         [] OTHER -> [done |-> FALSE, resp |-> error_response(0)]

\* x_accel_redirect_header(prefix, path): format!("/{}/{}", ..)
x_accel_redirect_header(pre, path) == <<"/">> \o trim_matches(pre) \o <<"/">> \o path

\* OnAllow and OnDeny of the configuration
OnFile == [kind |-> "file", prefix |-> <<>>]
OnEmpty == [kind |-> "empty", prefix |-> <<>>]
XAccelRedirect(pre) == [kind |-> "x-accel-redirect", prefix |-> pre]

\* the branch `if !is_allowed` of handle: the configured deny response
DenyResponse(cfg) ==
    IF cfg.on_deny = OnEmpty
    THEN error_response(403)
    ELSE [status |-> 204, x_accel |-> x_accel_redirect_header(cfg.on_deny.prefix, FullPath),
          cors |-> {}]

\* the end of handle: the configured allow response
AllowResponse(cfg, rq) ==
    CASE cfg.on_allow = OnFile ->
             [status |-> 200, x_accel |-> <<>>, cors |-> add_cors_headers(rq.http, cfg)]
      [] cfg.on_allow = OnEmpty ->
             [status |-> 204, x_accel |-> <<>>, cors |-> add_cors_headers(rq.http, cfg)]
      [] OTHER -> [status |-> 204,
                   x_accel |-> x_accel_redirect_header(cfg.on_allow.prefix, WithoutPrefix),
                   cors |-> add_cors_headers(rq.http, cfg)]

\* pc: the step of handle; http: method, path and CORS headers of the
\* request; tok: the raw token; elapsed: time since the pending
\* sleep of a select! began; stale, tried: stale_sources and tried_some_keys of
\* verify_signature; returned, try_again: backup_refresh has returned, and
\* what; result: what
\* decode_and_verify returned, or why is_allowed denied without it;
\* allowed: is_allowed of handle; upstream: the outcome of ask_opencast;
\* resp: the Response
IdleReq ==
    [pc |-> "idle", http |-> PlainGet, tok |-> NoToken, elapsed |-> 0, stale |-> {}, tried |-> FALSE,
     returned |-> FALSE, try_again |-> FALSE, result |-> None, allowed |-> FALSE,
     upstream |-> None, resp |-> error_response(0)]

\* an is_allowed that allows every token that verifies
GrantsAnyVerified(tok, result) == result = "ok"

\* is_allowed after the select!: does the token grant access?
Grants(tok, result) == result = "ok" /\ (tok.admin \/ PathEvent \in tok.events)

\* a handle that answers an expired token with 401 instead
DecideTellsExpired(rq, result) ==
    LET allowed == Grants(rq.tok, result)
        done == [rq EXCEPT !.result = result, !.allowed = allowed, !.elapsed = 0,
                           !.stale = {}, !.tried = FALSE]
    IN IF ~allowed /\ config.fallback # "none"
       THEN [done EXCEPT !.pc = "ask"]
       ELSE [done EXCEPT !.pc = "responded",
                         !.resp = CASE allowed -> AllowResponse(config, rq)
                                    [] ~allowed /\ result = "Expired" -> error_response(401)
                                    [] OTHER -> DenyResponse(config)]

\* handle once is_allowed has returned: respond, or ask Opencast first
Decide(rq, result) ==
    LET allowed == Grants(rq.tok, result)
        done == [rq EXCEPT !.result = result, !.allowed = allowed, !.elapsed = 0,
                           !.stale = {}, !.tried = FALSE]
    IN IF ~allowed /\ config.fallback # "none"
       THEN [done EXCEPT !.pc = "ask"]
       ELSE [done EXCEPT !.pc = "responded",
                         !.resp = IF allowed THEN AllowResponse(config, rq)
                                  ELSE DenyResponse(config)]

\* a decode_and_verify that reads the payload before it looks at the outcome
\* of verify_signature
ConcludeClaimsFirst(rq, out) ==
    Decide(rq, IF DecodePayload(rq.tok) # "ok" THEN DecodePayload(rq.tok) ELSE out)

\* verify_signature returned `out`; decode_and_verify finishes
Conclude(rq, out) == Decide(rq, IF out = "ok" THEN DecodePayload(rq.tok) ELSE out)

\* the requests suspended inside the select! of is_allowed
VerifyAwaits == {"await_refresh", "b_wwait", "b_join", "b_rwait"}

\* the requests inside a call of backup_refresh
InBackup == {"b_recent", "b_due", "b_write", "b_wwait", "b_locked", "b_join",
             "b_read", "b_rheld", "b_rwait"}

\* the response of the slot is out and no backup_refresh call that overlapped
\* the request's own is still running
Settled(r) ==
    /\ req[r].pc = "responded"
    /\ \A o \in Req \ {r} : {r, o} \in hist.overlap => req[o].pc = "responded"

\* the request slot is free: no request in it and no task left of its last one
FreeSlot(r) ==
    /\ req[r].pc = "idle" \/ Settled(r)
    /\ \A u \in Urls : task[<<r, u>>].pc = "none"

\* a request arrives, in the first free slot: method check, path parse, token
\* check, decoding and the fast pass
Arrive(r, q) ==
    /\ main_pc = "serving"
    /\ FreeSlot(r)
    /\ \A i, j \in 1..Len(ReqSeq) : i < j /\ ReqSeq[j] = r => ~FreeSlot(ReqSeq[i])
    /\ LET rq == [IdleReq EXCEPT !.http = q.http, !.tok = q.tok]
           tok == q.tok
           early == MethodAndPath(q.http, config)
           fp == FirstPass(keys, tok)
       IN CASE early.done ->
                 /\ req' = [req EXCEPT ![r] = [rq EXCEPT !.pc = "responded",
                                                         !.resp = early.resp]]
                 /\ task' = task
            [] ~early.done /\ tok = NoToken ->
                 /\ req' = [req EXCEPT ![r] = Decide(rq, "NoJwt")]
                 /\ task' = task
            [] ~early.done /\ tok # NoToken /\ DecodeHeader(tok) # "ok" ->
                 /\ req' = [req EXCEPT ![r] = Decide(rq, DecodeHeader(tok))]
                 /\ task' = task
            [] ~early.done /\ tok # NoToken /\ DecodeHeader(tok) = "ok"
               /\ fp.out # "continue" ->
                 /\ req' = [req EXCEPT ![r] = Conclude(rq, fp.out)]
                 /\ task' = task
            [] OTHER ->
                 /\ req' = [req EXCEPT ![r] =
                        [rq EXCEPT !.pc = IF fp.stale # {} THEN "await_refresh" ELSE "b_try",
                                   !.stale = fp.stale, !.tried = fp.tried]]
                 /\ task' = Spawn(task, r, fp.stale, "stale")
    /\ hist' = [hist EXCEPT !.overlap = {p \in @ : r \notin p}]
    /\ UNCHANGED <<keys, permits, sem_queue, last_backup_refresh, rw, main_pc, bg,
                   config, call, server, pool_ops, pool_last>>

\* refresh(stale_sources) returned: the pass over the refreshed sources
AfterRefresh(r) ==
    /\ req[r].pc = "await_refresh"
    /\ Joined(r, req[r].stale)
    /\ task' = Reap(task, r)
    /\ LET sp == SecondPass(keys, req[r].tok, req[r].stale)
           tried == req[r].tried \/ sp.tried
       IN req' = [req EXCEPT ![r] =
              CASE sp.out # "continue" -> Conclude(req[r], sp.out)
                [] sp.out = "continue" /\ req[r].stale = trusted_keys ->
                       Conclude(req[r], NoKeyVerified(tried))
                [] OTHER -> [req[r] EXCEPT !.pc = "b_try", !.tried = tried]]
    /\ UNCHANGED <<keys, permits, sem_queue, last_backup_refresh, rw, main_pc, bg,
                   config, call, server, pool_ops, pool_last, hist>>


(***************************************************************************)
(* KeyManager::backup_refresh (keys.rs 259-294), one action per step.      *)
(***************************************************************************)
\* last_refresh.elapsed() < BACKUP_REFRESH_RATE_LIMIT
TooRecent == last_backup_refresh < BACKUP_REFRESH_RATE_LIMIT

\* backup_refresh returns `again` to verify_signature
BackupReturns(rq, again) ==
    IF again
    THEN [rq EXCEPT !.pc = "pass3", !.returned = TRUE, !.try_again = TRUE]
    ELSE Conclude([rq EXCEPT !.returned = TRUE, !.try_again = FALSE], NoKeyVerified(rq.tried))

\* self.last_backup_refresh.try_read()
BackupTryRead(r) ==
    /\ req[r].pc = "b_try"
    /\ IF CanRead(rw)
       THEN /\ rw' = [rw EXCEPT !.readers = @ \cup {r}]
            /\ req' = [req EXCEPT ![r].pc = IF TooRecent THEN "b_recent" ELSE "b_due"]
       ELSE /\ rw' = rw
            /\ req' = [req EXCEPT ![r].pc = "b_read"]
    /\ hist' = [hist EXCEPT !.overlap = @ \cup
                    {{r, o} : o \in {x \in Req \ {r} : req[x].pc \in InBackup}}]
    /\ UNCHANGED <<keys, permits, sem_queue, last_backup_refresh, task, main_pc, bg,
                   config, call, server, pool_ops, pool_last>>

\* first arm: the last backup refresh is too recent, the read guard is dropped
BackupTooRecent(r) ==
    /\ req[r].pc = "b_recent"
    /\ rw' = Unlock(rw, r)
    /\ req' = [req EXCEPT ![r] = BackupReturns(req[r], FALSE)]
    /\ UNCHANGED <<keys, permits, sem_queue, last_backup_refresh, task, main_pc, bg,
                   config, call, server, pool_ops, pool_last, hist>>

\* a second arm that keeps its read guard while it asks for the write guard
KeepReadGuard(l, who) == l

\* drop(last_refresh)
DropReadGuard(l, who) == Unlock(l, who)

\* second arm: drop(last_refresh)
BackupDropRead(r) ==
    /\ req[r].pc = "b_due"
    /\ rw' = DropReadGuard(rw, r)
    /\ req' = [req EXCEPT ![r].pc = "b_write"]
    /\ UNCHANGED <<keys, permits, sem_queue, last_backup_refresh, task, main_pc, bg,
                   config, call, server, pool_ops, pool_last, hist>>

\* second arm: self.last_backup_refresh.write().await
BackupWrite(r) ==
    /\ req[r].pc = "b_write"
    /\ IF CanWrite(rw)
       THEN /\ rw' = [rw EXCEPT !.writer = r]
            /\ req' = [req EXCEPT ![r].pc = "b_locked"]
       ELSE /\ rw' = [rw EXCEPT !.queue = Append(@, [who |-> r, write |-> TRUE])]
            /\ req' = [req EXCEPT ![r].pc = "b_wwait"]
    /\ UNCHANGED <<keys, permits, sem_queue, last_backup_refresh, task, main_pc, bg,
                   config, call, server, pool_ops, pool_last, hist>>

\* a recheck that never finds the last backup refresh too recent
RecheckNever == FALSE

\* the recheck under the write lock says: do not refresh
RecheckTooRecent == TooRecent

\* second arm with the write guard: recheck, then self.refresh(sources)
BackupLocked(r) ==
    /\ \/ req[r].pc = "b_locked"
       \/ req[r].pc = "b_wwait" /\ rw.writer = r
    /\ IF RecheckTooRecent
       THEN /\ rw' = Unlock(rw, r)
            /\ req' = [req EXCEPT ![r] = BackupReturns(req[r], FALSE)]
            /\ task' = task
       ELSE /\ rw' = rw
            /\ req' = [req EXCEPT ![r].pc = "b_join"]
            /\ task' = Spawn(task, r, trusted_keys \ req[r].stale, "backup")
    /\ UNCHANGED <<keys, permits, sem_queue, last_backup_refresh, main_pc, bg,
                   config, call, server, pool_ops, pool_last, hist>>

\* second arm: refresh returned; *last_refresh = Instant::now(); true
BackupJoin(r) ==
    /\ req[r].pc = "b_join"
    /\ Joined(r, trusted_keys \ req[r].stale)
    /\ task' = Reap(task, r)
    /\ last_backup_refresh' = InstantNow
    /\ rw' = Unlock(rw, r)
    /\ req' = [req EXCEPT ![r] = BackupReturns(req[r], TRUE)]
    /\ hist' = [hist EXCEPT !.finishes = Min(@ + 1, 2),
                            !.close_finish = @ \/
                                (/\ hist.finishes > 0
                                 /\ last_backup_refresh < BACKUP_REFRESH_RATE_LIMIT),
                            !.bfetch = [u \in Urls |-> [open |-> FALSE, age |-> 0]]]
    /\ UNCHANGED <<keys, permits, sem_queue, main_pc, bg, config, call, server, pool_ops, pool_last>>

\* third arm: self.last_backup_refresh.read().await
BackupRead(r) ==
    /\ req[r].pc = "b_read"
    /\ IF CanRead(rw)
       THEN /\ rw' = [rw EXCEPT !.readers = @ \cup {r}]
            /\ req' = [req EXCEPT ![r].pc = "b_rheld"]
       ELSE /\ rw' = [rw EXCEPT !.queue = Append(@, [who |-> r, write |-> FALSE])]
            /\ req' = [req EXCEPT ![r].pc = "b_rwait"]
    /\ UNCHANGED <<keys, permits, sem_queue, last_backup_refresh, task, main_pc, bg,
                   config, call, server, pool_ops, pool_last, hist>>

\* third arm: the read guard arrived and is dropped; true
BackupReadDone(r) ==
    /\ \/ req[r].pc = "b_rheld"
       \/ req[r].pc = "b_rwait" /\ r \in rw.readers
    /\ rw' = Unlock(rw, r)
    /\ req' = [req EXCEPT ![r] = BackupReturns(req[r], TRUE)]
    /\ UNCHANGED <<keys, permits, sem_queue, last_backup_refresh, task, main_pc, bg,
                   config, call, server, pool_ops, pool_last, hist>>

\* verify_signature after backup_refresh returned true: the last pass
AfterBackup(r) ==
    /\ req[r].pc = "pass3"
    /\ LET tp == ThirdPass(keys, req[r].tok, req[r].stale)
       IN req' = [req EXCEPT ![r] =
              Conclude(req[r], IF tp.out # "continue" THEN tp.out
                               ELSE NoKeyVerified(req[r].tried \/ tp.tried))]
    /\ UNCHANGED <<keys, permits, sem_queue, last_backup_refresh, rw, task, main_pc, bg,
                   config, call, server, pool_ops, pool_last, hist>>


(***************************************************************************)
(* The timeout of is_allowed (auth.rs 18-24) and ask_opencast.             *)
(***************************************************************************)
\* a sleep that never becomes ready
VerifyTimerNever(rq) == FALSE

\* tokio::time::sleep(JWT_VERIFY_TIMEOUT) is ready
VerifyTimerReady(rq) == rq.elapsed >= JWT_VERIFY_TIMEOUT

\* a dropped future that keeps its lock guard and its place in the queue
LeakVerifyFuture(l, who) == l

\* the decode_and_verify future is dropped: its guard of last_backup_refresh,
\* or its pending read()/write(), goes with it
DropVerifyFuture(l, who) == Unlock(l, who)

\* the sleep wins the select!: the decode_and_verify future is dropped, and with
\* it its lock guard or queued lock request; spawned tasks run on detached
VerifyTimeout(r) ==
    /\ req[r].pc \in VerifyAwaits
    /\ VerifyTimerReady(req[r])
    /\ rw' = DropVerifyFuture(rw, r)
    /\ task' = Reap(task, r)
    /\ req' = [req EXCEPT ![r] = Decide(req[r], "Timeout")]
    /\ UNCHANGED <<keys, permits, sem_queue, last_backup_refresh, main_pc, bg,
                   config, call, server, pool_ops, pool_last, hist>>

\* the statuses Opencast answers the probe with
UpstreamStatuses == {"200", "204", "401", "404", "500"}

\* a check that takes every reply but 404 for a success
is_success_unless_404(status) == status # "404"

\* StatusCode::is_success: 2xx
is_success(status) == status \in {"200", "204"}

\* ask_opencast: Opencast replied
AskReply(r, status) ==
    /\ req[r].pc = "ask"
    /\ req' = [req EXCEPT ![r].pc = "responded", ![r].elapsed = 0, ![r].upstream = status,
                          ![r].allowed = (status # "404" /\ is_success(status)),
                          ![r].resp = CASE status = "404" -> error_response(404)
                                        [] status # "404" /\ is_success(status) ->
                                               AllowResponse(config, req[r])
                                        [] OTHER -> DenyResponse(config)]
    /\ UNCHANGED <<keys, permits, sem_queue, last_backup_refresh, rw, task, main_pc, bg,
                   config, call, server, pool_ops, pool_last, hist>>

\* ask_opencast: the request to Opencast failed
AskError(r) ==
    /\ req[r].pc = "ask"
    /\ req' = [req EXCEPT ![r].pc = "responded", ![r].elapsed = 0, ![r].upstream = "error",
                          ![r].resp = error_response(502)]
    /\ UNCHANGED <<keys, permits, sem_queue, last_backup_refresh, rw, task, main_pc, bg,
                   config, call, server, pool_ops, pool_last, hist>>

\* ask_opencast: no reply within 3 s
AskTimeout(r) ==
    /\ req[r].pc = "ask"
    /\ req[r].elapsed >= ASK_OPENCAST_TIMEOUT
    /\ req' = [req EXCEPT ![r].pc = "responded", ![r].elapsed = 0, ![r].upstream = "timeout",
                          ![r].resp = error_response(504)]
    /\ UNCHANGED <<keys, permits, sem_queue, last_backup_refresh, rw, task, main_pc, bg,
                   config, call, server, pool_ops, pool_last, hist>>

(***************************************************************************)
(* Time.                                                                   *)
(***************************************************************************)
\* the task can run: it is not suspended at an .await
TaskRuns(t) == task[t].pc \notin {"none", "fetch", "wait", "done"}

ReqRuns(r) ==
    \/ req[r].pc \notin (VerifyAwaits \cup {"idle", "ask", "responded"})
    \/ req[r].pc = "await_refresh" /\ Joined(r, req[r].stale)
    \/ req[r].pc = "b_join" /\ Joined(r, trusted_keys \ req[r].stale)
    \/ req[r].pc = "b_wwait" /\ rw.writer = r
    \/ req[r].pc = "b_rwait" /\ r \in rw.readers

MainRuns == main_pc = "new" \/ (main_pc = "init_join" /\ Joined("init", trusted_keys))

BgRuns ==
    \/ bg.pc = "top"
    \/ bg.pc = "sleep" /\ bg.sleep = 0
    \/ bg.pc = "join" /\ Joined("bg", bg.round)

\* a pending timer of a select! is due
TimerDue(r) ==
    \/ req[r].pc \in VerifyAwaits /\ VerifyTimerReady(req[r])
    \/ req[r].pc = "ask" /\ req[r].elapsed >= ASK_OPENCAST_TIMEOUT

OlderClock(c) == Older(c, BACKUP_REFRESH_RATE_LIMIT)

\* 500 ms pass while every task is suspended, no timer is due and no fetch
\* has been pending for the longest time
Tick ==
    /\ main_pc \in {"init_join", "serving"}
    /\ ~MainRuns /\ ~BgRuns
    /\ \A t \in TaskIds : ~TaskRuns(t) /\ task[t].age < MaxFetchTicks
    /\ \A r \in Req : ~ReqRuns(r) /\ ~TimerDue(r)
    /\ keys' = OlderKeys(keys)
    /\ last_backup_refresh' = OlderClock(last_backup_refresh)
    /\ bg' = IF bg.pc = "sleep" THEN [bg EXCEPT !.sleep = @ - 1] ELSE bg
    /\ req' = [r \in Req |->
                   CASE req[r].pc \in VerifyAwaits \cup {"ask"} -> [req[r] EXCEPT !.elapsed = @ + 1]
                     [] Settled(r) -> IdleReq
                     [] OTHER -> req[r]]
    /\ hist' = [hist EXCEPT !.overlap = {p \in @ : \A r \in p : ~Settled(r)},
                            !.up = OlderClock(@),
                            !.bfetch = [u \in Urls |->
                                 IF @[u].open THEN [@[u] EXCEPT !.age = OlderClock(@)] ELSE @[u]]]
    /\ task' = [t \in TaskIds |-> IF task[t].pc = "fetch"
                                    THEN [task[t] EXCEPT !.age = @ + 1] ELSE task[t]]
    /\ UNCHANGED <<permits, sem_queue, rw, main_pc, config, call, server, pool_ops, pool_last>>

(***************************************************************************)
(* serve (http/mod.rs 300-346): the accept loop and the shutdown.          *)
(***************************************************************************)
\* the default of http.shutdown_timeout (3 s)
SHUTDOWN_TIMEOUT == 6

\* the connections clients may open
Conns == {"c1", "c2", "c3"}

\* conn[c]: the connection is closed, or open and idle between requests, or
\* open with a request in progress; since: time since the sleep of the second
\* select! began
NoServer == [conn |-> [c \in Conns |-> "closed"], since |-> 0]

\* listener.accept() in the loop: the connection is served by a watched task
Accept(c) ==
    /\ main_pc = "serving"
    /\ server.conn[c] = "closed"
    /\ server' = [server EXCEPT !.conn[c] = "idle"]
    /\ UNCHANGED <<keys, permits, sem_queue, last_backup_refresh, rw, task, main_pc, bg,
                   req, config, call, pool_ops, pool_last, hist>>

\* a request arrives on an open connection
ConnRequest(c) ==
    /\ main_pc \in {"serving", "draining"}
    /\ server.conn[c] = "idle"
    /\ server' = [server EXCEPT !.conn[c] = "busy"]
    /\ UNCHANGED <<keys, permits, sem_queue, last_backup_refresh, rw, task, main_pc, bg,
                   req, config, call, pool_ops, pool_last, hist>>

\* the response of the connection's request is written; a connection told to
\* shut down gracefully closes after it
ConnRespond(c) ==
    /\ main_pc \in {"serving", "draining"}
    /\ server.conn[c] = "busy"
    /\ server' = [server EXCEPT !.conn[c] = IF main_pc = "draining" THEN "closed" ELSE "idle"]
    /\ UNCHANGED <<keys, permits, sem_queue, last_backup_refresh, rw, task, main_pc, bg,
                   req, config, call, pool_ops, pool_last, hist>>

\* the client closes the connection, or the connection fails, or an idle
\* connection reacts to the graceful shutdown
ConnClose(c) ==
    /\ main_pc \in {"serving", "draining"}
    /\ server.conn[c] # "closed"
    /\ server' = [server EXCEPT !.conn[c] = "closed"]
    /\ UNCHANGED <<keys, permits, sem_queue, last_backup_refresh, rw, task, main_pc, bg,
                   req, config, call, pool_ops, pool_last, hist>>

\* the arm `_ = &mut signal` of the loop: break, then the second select! starts
ShutdownSignal ==
    /\ main_pc = "serving"
    /\ main_pc' = "draining"
    /\ server' = [server EXCEPT !.since = 0]
    /\ UNCHANGED <<keys, permits, sem_queue, last_backup_refresh, rw, task, bg,
                   req, config, call, pool_ops, pool_last, hist>>

\* the arm graceful.shutdown() of the second select!: every watched connection
\* has ended
ShutdownDrained ==
    /\ main_pc = "draining"
    /\ \A c \in Conns : server.conn[c] = "closed"
    /\ main_pc' = "returned"
    /\ UNCHANGED <<keys, permits, sem_queue, last_backup_refresh, rw, task, bg,
                   req, config, call, server, pool_ops, pool_last, hist>>

\* a serve whose second select! has no sleep arm
ShutdownTimerNever == FALSE

\* tokio::time::sleep(shutdown_timeout) has elapsed
ShutdownTimerDue == server.since >= config.shutdown_timeout

\* the arm sleep(shutdown_timeout) of the second select!
ShutdownTimeout ==
    /\ main_pc = "draining"
    /\ ShutdownTimerDue
    /\ main_pc' = "returned"
    /\ UNCHANGED <<keys, permits, sem_queue, last_backup_refresh, rw, task, bg,
                   req, config, call, server, pool_ops, pool_last, hist>>

\* time passes while serve waits in the second select!
ServeTick ==
    /\ main_pc = "draining"
    /\ ~ShutdownTimerDue
    /\ server' = [server EXCEPT !.since = @ + 1]
    /\ UNCHANGED <<keys, permits, sem_queue, last_backup_refresh, rw, task, main_pc, bg,
                   req, config, call, pool_ops, pool_last, hist>>

(***************************************************************************)
(* The system specification.                                               *)
(***************************************************************************)
\* the configurations the system is started with
Configs ==
    {[trusted_keys |-> {"A"}, background_key_refresh |-> TRUE, fallback |-> "none",
      on_allow |-> OnEmpty, on_deny |-> OnEmpty, cors_allowed_origins |-> {"https://a"},
      shutdown_timeout |-> SHUTDOWN_TIMEOUT]}

\* history: overlap: pairs of requests whose backup_refresh calls overlapped;
\* finishes: how many backup_refresh calls completed a refresh (up to 2);
\* close_finish: one did while the instant that the one before it stored was
\* less than the rate limit old;
\* bfetch[u]: a fetch of u that backup_refresh started, and since when, kept
\* until a backup_refresh stores its instant (from then on last_backup_refresh
\* bounds that time from below); early: refresh_single calls that returned
\* before the fetch they had to outlast was published; applied[u]: the fetch
\* result of u that was published last; up: the time since the KeyManager was
\* constructed, up to the rate limit
InitHist ==
    [overlap |-> {}, finishes |-> 0, close_finish |-> FALSE, up |-> 0,
     bfetch |-> [u \in Urls |-> [open |-> FALSE, age |-> 0]], early |-> {},
     applied |-> [u \in Urls |-> [set |-> FALSE, res |-> FetchError]]]

\* no function has been applied yet
NoCall == [fn |-> None]

\* a timestamp that is a whole rate limit old when the KeyManager is built
BackupInstantLongAgo == BACKUP_REFRESH_RATE_LIMIT

\* last_backup_refresh: RwLock::new(Instant::now())
NewBackupInstant == InstantNow

\* the state in KeyManager::new once `this` is constructed
Started(configs) ==
    /\ config \in configs
    /\ keys = EmptyKeys
    /\ permits = [u \in Urls |-> 1]
    /\ sem_queue = [u \in Urls |-> <<>>]
    /\ last_backup_refresh = NewBackupInstant
    /\ rw = FreeLock
    /\ task = [t \in TaskIds |-> NoTask]
    /\ main_pc = "new"
    /\ bg = [pc |-> "off", sleep |-> 0, round |-> {}]
    /\ req = [r \in Req |-> IdleReq]
    /\ server = NoServer
    /\ pool_ops = 0
    /\ pool_last = [url |-> None, res |-> FetchError]
    /\ hist = InitHist

Init(configs) == Started(configs) /\ call = NoCall

\* the steps of the refresh_single tasks: the arm that fetches
TaskStep(served) ==
    \/ \E t \in TaskIds : TryAcquire(t)
    \/ \E t \in TaskIds, res \in served : FetchDone(t, res)
    \/ \E t \in TaskIds : RcuCas(t)
    \/ \E t \in TaskIds : DropPermit(t)

\* the steps of the refresh_single tasks: the arm that waits for a fetch
TaskWaitStep ==
    \/ \E t \in TaskIds : Acquire(t)
    \/ \E t \in TaskIds : DropWaitedPermit(t)

\* the steps of background_refresh
BgStep ==
    \/ BgLoopTop
    \/ BgWake
    \/ BgJoin

\* the steps of a request up to the decision of is_allowed
\* GETs of the request path with these tokens and no CORS headers
PlainRequests(tokens) == {[http |-> PlainGet, tok |-> tok] : tok \in tokens}

\* the steps of handle up to the refresh of the stale sources
ArriveStep(slots, requests) ==
    \/ \E r \in slots, q \in requests : Arrive(r, q)
    \/ \E r \in slots : AfterRefresh(r)

VerifyStep(slots, requests) ==
    \/ ArriveStep(slots, requests)
    \/ \E r \in slots : BackupTryRead(r)
    \/ \E r \in slots : BackupTooRecent(r)
    \/ \E r \in slots : BackupDropRead(r)
    \/ \E r \in slots : BackupWrite(r)
    \/ \E r \in slots : BackupLocked(r)
    \/ \E r \in slots : BackupJoin(r)
    \/ \E r \in slots : AfterBackup(r)
    \/ \E r \in slots : VerifyTimeout(r)

\* the third arm of backup_refresh, taken while another request holds or
\* awaits the lock
BackupWaitStep(slots) ==
    \/ \E r \in slots : BackupRead(r)
    \/ \E r \in slots : BackupReadDone(r)

\* the steps of ask_opencast
AskStep(slots) ==
    \/ \E r \in slots, status \in UpstreamStatuses : AskReply(r, status)
    \/ \E r \in slots : AskError(r)
    \/ \E r \in slots : AskTimeout(r)

\* The system with one source, the background refresh and one request slot.
Next ==
    \/ InitRefresh
    \/ InitDone
    \/ TaskStep(ServedResults)
    \/ TaskWaitStep
    \/ BgStep
    \/ VerifyStep({ReqSeq[1]}, PlainRequests(Tokens))
    \/ Tick

Spec == Init(Configs) /\ [][Next]_vars

\* The system with one source and two request slots, without the background
\* refresh.
BackupConfigs == {[c EXCEPT !.background_key_refresh = FALSE] : c \in Configs}

NextBackup ==
    \/ InitRefresh
    \/ InitDone
    \/ TaskStep(ServedResults)
    \/ TaskWaitStep
    \/ VerifyStep(Req, PlainRequests(Tokens))
    \/ BackupWaitStep(Req)
    \/ Tick

SpecBackup == Init(BackupConfigs) /\ [][NextBackup]_vars

\* The same system with a source that always serves its key set and a token
\* without kid that no served key verifies.
UnverifiableTokens == {[GoodToken EXCEPT !.signer = "mx", !.kid = None, !.admin = TRUE]}

NextStale ==
    \/ InitRefresh
    \/ InitDone
    \/ TaskStep(ServedResults \ {FetchError})
    \/ TaskWaitStep
    \/ VerifyStep(Req, PlainRequests(UnverifiableTokens))
    \/ BackupWaitStep(Req)
    \/ Tick

SpecStale == Init(BackupConfigs) /\ [][NextStale]_vars

\* One source, the background refresh and one request slot under fair
\* scheduling: a refresh_single task that can run does run, every jwks::fetch
\* completes, and a request and the background task that can run do run.
LiveReq == {ReqSeq[1]}
LiveUrls == UNION {c.trusted_keys : c \in Configs}

NextLive ==
    \/ InitRefresh
    \/ InitDone
    \/ TaskStep(ServedResults \ {FetchError})
    \/ TaskWaitStep
    \/ BgStep
    \/ VerifyStep(LiveReq, PlainRequests(UnverifiableTokens))
    \/ Tick

\* the refresh_single calls that can be spawned in this system
LiveTasks == {t \in TaskIds : t[1] \in LiveReq \cup {"init", "bg"} /\ t[2] \in LiveUrls}

TaskOf(t) ==
    \/ TryAcquire(t)
    \/ \E res \in ServedResults \ {FetchError} : FetchDone(t, res)
    \/ RcuCas(t)
    \/ DropPermit(t)
    \/ Acquire(t)
    \/ DropWaitedPermit(t)

ReqOf(r) ==
    \/ AfterRefresh(r)
    \/ BackupTryRead(r)
    \/ BackupTooRecent(r)
    \/ BackupDropRead(r)
    \/ BackupWrite(r)
    \/ BackupLocked(r)
    \/ BackupJoin(r)
    \/ AfterBackup(r)
    \/ VerifyTimeout(r)

SpecLive ==
    /\ Init(Configs)
    /\ [][NextLive]_vars
    /\ \A t \in LiveTasks : WF_vars(TaskOf(t))
    /\ \A r \in LiveReq : WF_vars(ReqOf(r))
    /\ WF_vars(InitDone)
    /\ WF_vars(BgStep)

\* The key manager with two sources and the background refresh, no requests.
KeysConfigs == {[c EXCEPT !.trusted_keys = Urls] : c \in Configs}

NextKeys ==
    \/ InitRefresh
    \/ InitDone
    \/ TaskStep(ServedResults)
    \/ \E t \in TaskIds : RcuLoad(t)
    \/ BgStep
    \/ Tick

SpecKeys == Init(KeysConfigs) /\ [][NextKeys]_vars

\* The request handler with one request slot and every kind of token, with
\* and without the fallback; the source serves its key set without errors.
AuthConfigs ==
    {[c EXCEPT !.background_key_refresh = FALSE, !.fallback = m[1], !.on_allow = m[2],
               !.on_deny = m[3]] :
        c \in Configs, m \in {<<"none", OnEmpty, OnEmpty>>,
                              <<"none", XAccelRedirect(ProtectedPrefix),
                                XAccelRedirect(DeniedPrefix)>>,
                              <<"head", XAccelRedirect(ProtectedPrefix),
                                XAccelRedirect(DeniedPrefix)>>}}

NextAuth ==
    \/ InitRefresh
    \/ InitDone
    \/ TaskStep(ServedResults \ {FetchError})
    \/ VerifyStep({ReqSeq[1]}, PlainRequests(AllTokens))
    \/ AskStep({ReqSeq[1]})
    \/ Tick

SpecAuth == Init(AuthConfigs) /\ [][NextAuth]_vars

\* One request slot and a source that rotates the algorithm of the key it
\* serves under k1, or fails; tokens of either algorithm under kid k1.
RotatingResults ==
    ServedResults \cup {Jwks(<<[key |-> [algo |-> "ES384", mat |-> "m2"], kid |-> "k1"]>>)}

AlgoTokens == {GoodToken, [GoodToken EXCEPT !.alg = "ES384"]}

NextAlgo ==
    \/ InitRefresh
    \/ InitDone
    \/ TaskStep(RotatingResults)
    \/ VerifyStep({ReqSeq[1]}, PlainRequests(AlgoTokens))
    \/ Tick

SpecAlgo == Init(BackupConfigs) /\ [][NextAlgo]_vars

\* One request slot and tokens whose payload cannot be decoded or whose time
\* claims are invalid, signed with the served key or with another key.
DecodeTokens ==
    {GoodToken,
     [GoodToken EXCEPT !.time = "expired"],
     [GoodToken EXCEPT !.time = "exp_missing"],
     [GoodToken EXCEPT !.time = "not_yet"],
     [GoodToken EXCEPT !.payload = "bad_base64"],
     [GoodToken EXCEPT !.payload = "bad_json"],
     [GoodToken EXCEPT !.signer = "mx", !.time = "expired"],
     [GoodToken EXCEPT !.signer = "mx", !.payload = "bad_json"],
     [GoodToken EXCEPT !.signer = "mx", !.kid = None, !.time = "exp_missing"],
     [GoodToken EXCEPT !.signer = "mx", !.kid = None, !.payload = "bad_base64"]}

NextDecode ==
    \/ InitRefresh
    \/ InitDone
    \/ TaskStep(ServedResults \ {FetchError})
    \/ VerifyStep({ReqSeq[1]}, PlainRequests(DecodeTokens))
    \/ Tick

SpecDecode == Init(BackupConfigs) /\ [][NextDecode]_vars

\* The front of the request handler with one request slot: every method,
\* parsable and unparsable paths, CORS headers, and a few tokens; redirects
\* configured, no fallback; the tokens are absent or signed with a served key.
FrontConfigs ==
    {[c EXCEPT !.background_key_refresh = FALSE,
               !.on_allow = XAccelRedirect(ProtectedPrefix),
               !.on_deny = XAccelRedirect(DeniedPrefix)] : c \in Configs}

Origins == {None, "https://a", "https://b"}

\* the values of Access-Control-Request-Headers and
\* Access-Control-Request-Method of the preflights
Preflights ==
    {<<NoHeader, "GET">>, <<HeaderOf(<<"Authorization">>), "GET">>,
     <<HeaderOf(<<"Authorization", " authorization">>), "GET">>,
     <<HeaderOf(<<"Authorization", "X-Custom">>), "GET">>, <<HeaderOf(<<"">>), "GET">>,
     <<HeaderOf(<<"Authorization">>), "POST">>, <<HeaderOf(<<"Authorization">>), None>>}

FrontTokens == {NoToken, GoodToken}

FrontRequests ==
    {[http |-> [method |-> "OPTIONS", path |-> RequestPath, origin |-> origin,
                acrh |-> pf[1], acrm |-> pf[2]], tok |-> NoToken] :
        origin \in Origins, pf \in Preflights}
    \cup {[http |-> [method |-> method, path |-> path, origin |-> "https://a",
                     acrh |-> HeaderOf(<<"Authorization">>), acrm |-> "GET"],
           tok |-> GoodToken] :
        method \in {"OPTIONS", "POST"}, path \in {RequestPath, <<"/", "s">>}}
    \cup {[http |-> [PlainGet EXCEPT !.path = path, !.origin = "https://a"],
           tok |-> GoodToken] : path \in BadPaths}
    \cup {[http |-> [PlainGet EXCEPT !.origin = origin], tok |-> tok] :
        origin \in Origins, tok \in FrontTokens}

NextFront ==
    \/ InitRefresh
    \/ InitDone
    \/ TaskStep(ServedResults \ {FetchError})
    \/ ArriveStep({ReqSeq[1]}, FrontRequests)
    \/ Tick

SpecFront == Init(FrontConfigs) /\ [][NextFront]_vars

\* The server loop: connections are accepted, carry requests and close, or
\* never close; the shutdown signal arrives at any time. The runtime polls
\* serve, and time passes.
NextServe ==
    \/ InitRefresh
    \/ InitDone
    \/ TaskStep(ServedResults \ {FetchError})
    \/ Tick
    \/ \E c \in Conns : Accept(c)
    \/ \E c \in Conns : ConnRequest(c)
    \/ \E c \in Conns : ConnRespond(c)
    \/ \E c \in Conns : ConnClose(c)
    \/ ShutdownSignal
    \/ ShutdownDrained
    \/ ShutdownTimeout
    \/ ServeTick

SpecServe ==
    /\ Init(FrontConfigs)
    /\ [][NextServe]_vars
    /\ WF_vars(ServeTick) /\ WF_vars(ShutdownTimeout) /\ WF_vars(ShutdownDrained)

\* Two connections: a request whose path makes PathParts::parse panic arrives
\* before, while and after another request is handled.
PanicRequests ==
    {[http |-> [PlainGet EXCEPT !.path = path], tok |-> tok] :
        path \in {RequestPath, <<"/", "s">>}, tok \in FrontTokens}

NextPanic ==
    \/ InitRefresh
    \/ InitDone
    \/ TaskStep(ServedResults \ {FetchError})
    \/ ArriveStep(Req, PanicRequests)
    \/ Tick

SpecPanic == Init(FrontConfigs) /\ [][NextPanic]_vars

\* The path parser alone: PathParts::parse applied to every path of up to
\* MaxPathLen characters, under several configurations of path prefixes.
PrefixConfigs ==
    {<<(<<"/", "s">>)>>, <<(<<"/", "s", "/">>)>>, <<(<<"/", "s", "/", "s">>)>>,
     <<(<<"/", "s">>), (<<"/", "s", "s">>)>>, <<(<<"/", "s", "s">>), (<<"/", "s">>)>>}

InitPath ==
    /\ Started(Configs)
    /\ call \in {[fn |-> "parse", path |-> path, path_prefixes |-> prefixes,
                   returned |-> FALSE, parts |-> NoParts("none")] :
                      path \in Paths, prefixes \in PrefixConfigs}

\* PathParts::parse(path, config) runs
ParsePath ==
    /\ call.fn = "parse" /\ ~call.returned
    /\ call' = [call EXCEPT !.returned = TRUE, !.parts = parse(call.path, call.path_prefixes)]
    /\ UNCHANGED <<keys, permits, sem_queue, last_backup_refresh, rw, task, main_pc, bg, req,
                   config, server, pool_ops, pool_last, hist>>

NextPath == ParsePath

SpecPath == InitPath /\ [][NextPath]_vars

\* The file responder alone: serve_file applied to allowed requests for
\* files inside and outside the event directory, with every combination of
\* conditional and range headers.
FilePaths ==
    {<<"/", "s", "/", "o", "/", "c", "/", "e", "/", "f">>,
     <<"/", "s", "/", "o", "/", "c", "/", "e", "/", "n">>,
     <<"/", "s", "/", "o", "/", "c", "/", "e", "/", "l">>,
     <<"/", "s", "/", "o", "/", "c", "/", "e", "/", ".", ".", "/", "x", "/", "g">>,
     <<"/", "s", "/", "o", "/", "c", "/", "x", "/", "g">>,
     <<"/", "s", "/", "/", "c", "/", "e", "/", "f">>}

\* modification times: 1.0 s and 1.5 s
Mtimes == {2, 3}

\* the values of If-None-Match: absent, *, the ETag of the file f at either
\* mtime, another tag, and a list with the weak form of the ETag
IfNoneMatches ==
    {[some |-> FALSE, star |-> FALSE, items |-> <<>>],
     [some |-> TRUE, star |-> TRUE, items |-> <<>>],
     [some |-> TRUE, star |-> FALSE, items |-> <<[weak |-> FALSE, tag |-> <<1, 1, 1>>]>>]}
    \cup {[some |-> TRUE, star |-> FALSE,
           items |-> <<[weak |-> FALSE, tag |-> etag(mtime, FileSize, 6)]>>] : mtime \in Mtimes}
    \cup {[some |-> TRUE, star |-> FALSE,
           items |-> <<[weak |-> FALSE, tag |-> <<1, 1, 1>>],
                       [weak |-> TRUE, tag |-> etag(mtime, FileSize, 6)]>>] : mtime \in Mtimes}

\* the values of If-Modified-Since: absent, not a date, and the seconds 0..2
IfModifiedSinces ==
    {[some |-> FALSE, valid |-> FALSE, secs |-> 0], [some |-> TRUE, valid |-> FALSE, secs |-> 0]}
    \cup {[some |-> TRUE, valid |-> TRUE, secs |-> secs] : secs \in 0..2}

\* what HttpRange::parse_bytes(range_header, file_size) returns: no Range
\* header, the two errors, and lists of ranges inside the file
RangeOutcomes ==
    {[kind |-> k, ranges |-> <<>>] : k \in {"absent", "ok", "InvalidRange", "NoOverlap"}}
    \cup UNION {{[kind |-> "ok", ranges |-> <<[start |-> a, length |-> n]>>] :
                     n \in 1..(FileSize - a)} : a \in 0..(FileSize - 1)}
    \cup {[kind |-> "ok", ranges |-> <<[start |-> 0, length |-> 1], [start |-> 2, length |-> 1]>>]}

InitFile ==
    /\ Started(FrontConfigs)
    /\ call \in {[fn |-> "serve_file",
                   http |-> [PlainGet EXCEPT !.path = path, !.origin = origin],
                   headers |-> [method |-> "GET", origin |-> origin, mtime |-> mtime,
                                if_none_match |-> inm, if_modified_since |-> ims,
                                range |-> range],
                   returned |-> FALSE, resp |-> FileErrorResponse(0)] :
                      path \in FilePaths, origin \in {None, "https://a"}, mtime \in Mtimes,
                      inm \in IfNoneMatches, ims \in IfModifiedSinces, range \in RangeOutcomes}

\* the allowed request reaches serve_file
ServeFile ==
    /\ call.fn = "serve_file" /\ ~call.returned
    /\ call' = [call EXCEPT !.returned = TRUE,
                            !.resp = serve_file(parse(call.http.path, path_prefixes),
                                                call.headers, config)]
    /\ UNCHANGED <<keys, permits, sem_queue, last_backup_refresh, rw, task, main_pc, bg, req,
                   config, server, pool_ops, pool_last, hist>>

NextFile == ServeFile

SpecFile == InitFile /\ [][NextFile]_vars

\* The key pool alone: update_source and the failed-fetch drop applied to it in
\* any order, for every fetch result, with time passing in between.
PoolApply(url, res) ==
    /\ pool_ops < MaxPoolOps
    /\ keys' = ApplyFetchResult(keys, url, res)
    /\ pool_ops' = pool_ops + 1
    /\ pool_last' = [url |-> url, res |-> res]
    /\ UNCHANGED <<permits, sem_queue, last_backup_refresh, rw, task, main_pc, bg, req,
                   config, call, server, hist>>

PoolTick ==
    /\ pool_ops < MaxPoolOps
    /\ keys' = OlderKeys(keys)
    /\ pool_ops' = pool_ops + 1
    /\ UNCHANGED <<permits, sem_queue, last_backup_refresh, rw, task, main_pc, bg, req,
                   config, call, server, pool_last, hist>>

NextPool ==
    \/ \E url \in Urls, res \in FetchResults : PoolApply(url, res)
    \/ PoolTick

SpecPool == Init(Configs) /\ [][NextPool]_vars

\* Keys::keys_for alone: applied, for every kid and algorithm of a token, to the
\* pools that updates and failed-fetch drops build.
InitKeysFor ==
    /\ Started(KeysConfigs)
    /\ call \in [fn : {"keys_for"}, kid : Kids \cup {None}, alg : Algos, returned : {FALSE},
                  K : {EmptyKeys}, result : {[err |-> FALSE, cands |-> {}]}]

KeysFor ==
    /\ ~call.returned
    /\ call' = [call EXCEPT !.returned = TRUE, !.K = keys,
                            !.result = keys_for(keys, call.kid, call.alg)]
    /\ UNCHANGED <<keys, permits, sem_queue, last_backup_refresh, rw, task, main_pc, bg, req,
                   config, server, pool_ops, pool_last, hist>>

NextKeysFor ==
    \/ \E url \in Urls, res \in FetchResults : ~call.returned /\ PoolApply(url, res)
    \/ KeysFor

SpecKeysFor == InitKeysFor /\ [][NextKeysFor]_vars

(***************************************************************************)
(* Context::verify_claims (decode.rs 63-81) on unsigned integers of        *)
(* TimeBits bits in place of u64.                                          *)
(***************************************************************************)
TimeBits == 3

\* the values of the unsigned integer type
Seconds == 0..(2 ^ TimeBits - 1)

\* a + b on the unsigned type: the wrapped sum, and whether it overflowed
add(a, b) == [sum |-> (a + b) % (2 ^ TimeBits), overflow |-> a + b >= 2 ^ TimeBits]

\* Option<u64>: the claim is absent, or has a value
OptionalSeconds == {[some |-> FALSE, v |-> 0]} \cup {[some |-> TRUE, v |-> v] : v \in Seconds}

\* verify_claims for the payload's exp and nbf, the configured
\* allowed_clock_skew and the clock reading `now`; an overflowing addition
\* panics in a build with overflow checks and wraps in one without
verify_claims_u64(exp, nbf, skew, now, overflow_checks) ==
    CASE ~exp.some -> "ExpMissing"
      [] exp.some /\ add(exp.v, skew).overflow /\ overflow_checks -> "panic"
      [] exp.some /\ ~(add(exp.v, skew).overflow /\ overflow_checks)
         /\ add(exp.v, skew).sum < now -> "Expired"
      [] OTHER ->
            CASE ~nbf.some -> "ok"
              [] nbf.some /\ add(now, skew).overflow /\ overflow_checks -> "panic"
              [] nbf.some /\ ~(add(now, skew).overflow /\ overflow_checks)
                 /\ nbf.v > add(now, skew).sum -> "NotValidYet"
              [] OTHER -> "ok"

\* verify_claims alone, for every exp, nbf, clock skew and clock reading
InitClaims ==
    /\ Started(Configs)
    /\ call \in [fn : {"verify_claims"}, exp : OptionalSeconds, nbf : OptionalSeconds,
                  skew : Seconds, now : Seconds, returned : {FALSE}, result : {None}]

VerifyClaims ==
    /\ ~call.returned
    /\ \E overflow_checks \in BOOLEAN :
           call' = [call EXCEPT !.returned = TRUE,
                                !.result = verify_claims_u64(call.exp, call.nbf, call.skew,
                                                             call.now, overflow_checks)]
    /\ UNCHANGED <<keys, permits, sem_queue, last_backup_refresh, rw, task, main_pc, bg, req,
                   config, server, pool_ops, pool_last, hist>>

NextClaims == VerifyClaims

SpecClaims == InitClaims /\ [][NextClaims]_vars

(***************************************************************************)
(* Properties of the key manager.                                          *)
(***************************************************************************)
\* the refresh_single calls whose jwks::fetch of the URL is pending
Fetching(u) == {t \in TaskIds : t[2] = u /\ task[t].pc = "fetch"}

\* the refresh_single calls suspended in semaphore.acquire() of the URL
Waiting(u) == {t \in TaskIds : t[2] = u /\ task[t].pc = "wait"}

\* C1: for each JWKS URL at most one fetch is in flight at any time, however
\* many refresh calls on the URL run concurrently and whoever made them
\* (request tasks, backup refresh, background loop).
SingleFlight == \A u \in Urls : Cardinality(Fetching(u)) <= 1

\* a fetch that a request started is in flight while the call of the
\* background loop on the same URL waits for it
SingleFlightWitness ==
    \E u \in Urls : \E f \in Fetching(u), w \in Waiting(u) :
        task[f].why \in {"stale", "backup"} /\ task[w].why = "bg"

\* C2: a refresh_single call that finds a fetch of its URL in flight starts no
\* fetch and returns only after that fetch has published its result; the call
\* that fetches returns only after publishing its own.
ReturnsAfterPublish ==
    /\ hist.early = {}
    /\ \A t \in TaskIds : task[t].found => task[t].pc \in {"acquire", "wait", "granted", "done"}

\* a call that found a fetch in flight has returned, after that fetch published
ReturnsAfterPublishWitness ==
    \E t \in TaskIds : task[t].pc = "done" /\ task[t].found /\ ~Unpublished(t[2])

\* the entries of source u in the pool: the key under each kid, the keys
\* without a kid in order, and the source records the entries carry
SourceEntries(K, u) ==
    [with_id |-> [k \in {x \in DOMAIN K.with_id : K.with_id[x].source.url = u}
                     |-> K.with_id[k].key],
     without_id |-> [i \in 1..Len(SelectSeq(K.without_id, LAMBDA e : e.source.url = u))
                        |-> SelectSeq(K.without_id, LAMBDA e : e.source.url = u)[i].key],
     records |-> {e.source : e \in {x \in AllEntries(K) : x.source.url = u}}]

\* the source records of u in the source list
SourceRecords(K, u) == {K.sources[i] : i \in {j \in 1..Len(K.sources) : K.sources[j].url = u}}

\* C6: every snapshot of the pool that a reader can load holds, for each
\* source, all entries of the fetch result published last for it, each with
\* the last_fetch record of that fetch, and no others; never a part of them.
WholeSources ==
    \A u \in Urls :
        hist.applied[u].set =>
            LET one == SourceEntries(ApplyFetchResult(EmptyKeys, u, hist.applied[u].res), u)
                now == SourceEntries(keys, u)
            IN /\ now.with_id = one.with_id
               /\ now.without_id = one.without_id
               /\ Cardinality(SourceRecords(keys, u)) = 1
               /\ now.records \subseteq SourceRecords(keys, u)

\* every change of the published pool applies one whole fetch result to the
\* snapshot published before it (or is the passing of time)
WholeUpdates ==
    [][keys' # keys =>
          \/ keys' = OlderKeys(keys)
          \/ \E t \in TaskIds : /\ task[t].pc = "cas"
                                 /\ keys' = ApplyFetchResult(keys, t[2], task[t].res)]_vars

\* the update of one source was published between the load and the swap of
\* another's, whose swap failed and is retried
WholeUpdatesWitness ==
    \E t \in TaskIds : task[t].pc = "rcu" /\ Len(keys.sources) > 0 /\ task[t].seen = EmptyKeys

\* every entry's source is a record of the pool's source list
SourcesListed(K) ==
    \A e \in AllEntries(K) : \E i \in 1..Len(K.sources) : K.sources[i] = e.source

\* no two entries under a kid have the same (kid, source.url)
KidEntriesDistinct(K) ==
    \A k \in DOMAIN K.with_id, h \in DOMAIN K.with_id :
        k # h => <<k, K.with_id[k].source.url>> # <<h, K.with_id[h].source.url>>

\* no two entries without a kid have the same source.url
NoKidEntriesDistinct(K) ==
    \A i \in 1..Len(K.without_id), j \in 1..Len(K.without_id) :
        i # j => K.without_id[i].source.url # K.without_id[j].source.url

\* C7 as stated: after any sequence of source updates and source drops, no
\* two entries of the pool, with or without a kid, have the same
\* (kid, source.url), and every entry's source appears in the source list.
PoolEntriesDistinct ==
    KidEntriesDistinct(keys) /\ NoKidEntriesDistinct(keys) /\ SourcesListed(keys)

\* C7, amended: after any sequence of source updates and source drops, no two
\* entries that carry a kid have the same (kid, source.url), and every
\* entry's source appears in the source list; entries without a kid can
\* share their source.
PoolKidEntriesDistinct == KidEntriesDistinct(keys) /\ SourcesListed(keys)

\* both sources were updated and then one was dropped; the pool still holds
\* the other's entries, one under a kid and one without
PoolKidEntriesDistinctWitness ==
    /\ pool_ops = MaxPoolOps
    /\ Len(keys.sources) = 2
    /\ ~pool_last.res.ok
    /\ DOMAIN keys.with_id # {}
    /\ keys.without_id # <<>>

(***************************************************************************)
(* Properties of backup_refresh and of the timeout of is_allowed.          *)
(***************************************************************************)
\* C3: no two executions of backup_refresh that perform the refresh finish
\* within 15 s of each other.
FinishesApart == ~hist.close_finish

\* two executions of backup_refresh have performed the refresh and finished
FinishesApartWitness == hist.finishes = 2

\* C4: backup_refresh calls that overlap in time share one execution: every
\* overlapping caller gets the same return value, and requests with the same
\* token get the same verification outcome.
SharedBackupRefresh ==
    \A p \in hist.overlap : \A r \in p, o \in p :
        /\ req[r].returned /\ req[o].returned => req[r].try_again = req[o].try_again
        /\ (/\ req[r].returned /\ req[o].returned
            /\ req[r].pc = "responded" /\ req[o].pc = "responded"
            /\ req[r].tok = req[o].tok)
           => req[r].result = req[o].result

\* C5: unverifiable tokens cannot force unlimited fetches: a fetch that
\* backup_refresh starts of a URL begins no sooner than 15 s after the last
\* one it started of that URL, also when a request was aborted by the 2.5 s
\* timeout while its backup refresh was running.
BackupFetchRate ==
    [][\A t \in TaskIds :
          (task[t].pc = "start" /\ task[t].why = "backup" /\ task'[t].pc = "fetch")
          => ~(/\ hist.bfetch[t[2]].open
               /\ hist.bfetch[t[2]].age < BACKUP_REFRESH_RATE_LIMIT)]_vars

\* C10: a request never waits on decoding and verifying, key refresh
\* included, for more than 2.5 s: when they are not complete by then, the
\* decider denies.
VerifyDeadline ==
    \A r \in Req :
        /\ req[r].pc \in VerifyAwaits => req[r].elapsed <= JWT_VERIFY_TIMEOUT
        /\ req[r].result = "Timeout" =>
               ~req[r].allowed /\ req[r].pc = "responded" /\ req[r].resp = DenyResponse(config)

\* a request was denied because its key refresh took longer than the timeout
VerifyDeadlineWitness ==
    \E r \in Req : req[r].pc = "responded" /\ req[r].result = "Timeout" /\ ~req[r].allowed

(***************************************************************************)
(* Properties of the request handler.                                      *)
(***************************************************************************)
\* the keys that the trusted sources serve
ServedKeys ==
    UNION {{res.data.keys[i].key : i \in 1..Len(res.data.keys)} : res \in ServedResults}

\* the token can be decoded, one of the served keys of its algorithm verifies
\* its signature, and its claims are valid now
Verifiable(tok) ==
    /\ tok.header = "ok" /\ tok.sig = "ok" /\ tok.payload = "ok" /\ tok.time = "ok"
    /\ tok.alg \in Algos
    /\ \E key \in ServedKeys : algo(key) = tok.alg /\ verify(key, tok)

\* C8: a GET request receives the allow response only if its token was decoded
\* and verified within the timeout and has ROLE_ADMIN or lists the event of
\* the path, or the configured fallback answered 2xx; with fallback "none" only
\* in the first case.
AllowOnlyIfGranted ==
    \A r \in Req :
        (req[r].pc = "responded" /\ req[r].resp = AllowResponse(config, req[r])) =>
            \/ /\ Verifiable(req[r].tok)
               /\ req[r].result = "ok"
               /\ req[r].tok.admin \/ PathEvent \in req[r].tok.events
            \/ config.fallback # "none" /\ req[r].upstream \in {"200", "204"}

\* without a fallback, a request was allowed for a verified token that has
\* ROLE_ADMIN and lists no event
AllowOnlyIfGrantedWitness ==
    \E r \in Req :
        /\ req[r].pc = "responded" /\ req[r].resp = AllowResponse(config, req[r])
        /\ config.fallback = "none"
        /\ req[r].tok.admin /\ req[r].tok.events = {}

\* the token failures of C9, as decode_and_verify and is_allowed report them
TokenFailures ==
    {"NoJwt", "InvalidJwt", "InvalidJson", "UnsupportedAlg", "NoSuitableKey",
     "InvalidSignature", "AlgoMismatch", "ExpMissing", "Expired", "NotValidYet"}

\* C9: with fallback "none", every token failure produces the one configured
\* deny response: 403, or 204 with the X-Accel-Redirect header of the deny
\* prefix and the request path; status and headers do not depend on the
\* failure.
UniformDenial ==
    config.fallback = "none" =>
        \A r \in Req :
            (/\ req[r].pc = "responded"
             /\ req[r].result \in TokenFailures \/ ~Verifiable(req[r].tok)) =>
                req[r].resp =
                    IF config.on_deny = OnEmpty
                    THEN [status |-> 403, x_accel |-> <<>>, cors |-> {}]
                    ELSE [status |-> 204,
                          x_accel |-> <<"/">> \o trim_matches(config.on_deny.prefix)
                                          \o <<"/">> \o RequestPath,
                          cors |-> {}]

\* without a fallback and with a deny redirect configured, a token signed
\* with an unknown key under an unknown kid was denied after the backup refresh
UniformDenialWitness ==
    \E r \in Req :
        /\ req[r].pc = "responded" /\ req[r].result = "NoSuitableKey" /\ req[r].returned
        /\ config.fallback = "none" /\ config.on_deny = XAccelRedirect(DeniedPrefix)

(***************************************************************************)
(* Properties of the fallback probe.                                       *)
(***************************************************************************)
\* the allow response of the configuration, written out
ConfiguredAllow ==
    CASE config.on_allow = OnFile -> [status |-> 200, x_accel |-> <<>>, cors |-> {}]
      [] config.on_allow = OnEmpty -> [status |-> 204, x_accel |-> <<>>, cors |-> {}]
      [] OTHER -> [status |-> 204,
                   x_accel |-> <<"/">> \o trim_matches(config.on_allow.prefix)
                                   \o <<"/">> \o WithoutPrefix,
                   cors |-> {}]

\* the deny response of the configuration, written out
ConfiguredDeny ==
    IF config.on_deny = OnEmpty
    THEN [status |-> 403, x_accel |-> <<>>, cors |-> {}]
    ELSE [status |-> 204,
          x_accel |-> <<"/">> \o trim_matches(config.on_deny.prefix) \o <<"/">> \o FullPath,
          cors |-> {}]

\* the local decision of a responded request was deny
LocallyDenied(rq) ==
    ~(rq.result = "ok" /\ (rq.tok.admin \/ PathEvent \in rq.tok.events))

ForwardsUnauthorized ==
    \A r \in Req :
        (req[r].pc = "responded" /\ req[r].upstream = "401") => req[r].resp.status = 401

(***************************************************************************)
(* Properties of the front of the request handler and of the path parser.  *)
(***************************************************************************)
\* the path is '/', the prefix without its surrounding slashes, and then org,
\* channel, event id and suffix, each non-empty and separated by one '/'
FiveSegments(path, pre) ==
    LET n == Len(pre)
    IN /\ pre # <<>>
       /\ starts_with(path, <<"/">> \o pre \o <<"/">>)
       /\ \E i, j, k \in 1..Len(path) :
              /\ n + 3 < i /\ i + 1 < j /\ j + 1 < k /\ k < Len(path)
              /\ path[i] = "/" /\ path[j] = "/" /\ path[k] = "/"
              /\ \A m \in (n + 3)..(k - 1) : path[m] = "/" => m \in {i, j}

\* the path has the five segments under one of the configured prefixes
WellFormedPath(path, prefixes) ==
    \E x \in 1..Len(prefixes) : FiveSegments(path, trim_matches(prefixes[x]))

\* the response of the slot was made without a token verification, a key-set
\* fetch or a probe
AnsweredAtOnce(r) ==
    /\ req[r].result = None /\ req[r].upstream = None
    /\ \A u \in Urls : task[<<r, u>>].pc = "none"

\* C13: an OPTIONS request gets 204, any other method but GET gets 405, and a
\* GET whose path does not parse gets 400, whatever the path and the token;
\* none of these responses involves a token verification, a key-set fetch
\* or a probe.
MethodBeforePathBeforeAuth ==
    \A r \in Req :
        req[r].pc = "responded" =>
            /\ req[r].http.method = "OPTIONS" =>
                   req[r].resp.status = 204 /\ AnsweredAtOnce(r)
            /\ req[r].http.method \notin {"OPTIONS", "GET"} =>
                   req[r].resp.status = 405 /\ AnsweredAtOnce(r)
            /\ (req[r].http.method = "GET"
                /\ ~WellFormedPath(req[r].http.path, path_prefixes)) =>
                   req[r].resp.status = 400 /\ AnsweredAtOnce(r)

\* no two slashes of the string are adjacent
SingleSlashes(str) == \A i \in 1..(Len(str) - 1) : ~(str[i] = "/" /\ str[i + 1] = "/")

\* the string without its leading slashes
RECURSIVE WithoutLeadingSlash(_)
WithoutLeadingSlash(str) ==
    IF str # <<>> /\ Head(str) = "/" THEN WithoutLeadingSlash(Tail(str)) ELSE str

\* C14: with an x-accel-redirect shape the allow and the deny response are
\* 204 with an X-Accel-Redirect header whose value is the prefix, a slash and
\* the path: the request path without the matched path prefix on allow, the
\* full request path on deny; the value has single slashes only.
RedirectValueWellFormed ==
    \A r \in Req :
        LET rq == req[r]
            shape == IF rq.allowed THEN config.on_allow ELSE config.on_deny
            path == IF rq.allowed
                    THEN SubSeq(rq.http.path, Len(trim_matches(path_prefixes[1])) + 3,
                                Len(rq.http.path))
                    ELSE WithoutLeadingSlash(rq.http.path)
        IN /\ (rq.pc = "responded" /\ rq.allowed /\ shape.kind = "x-accel-redirect") =>
                   rq.resp.x_accel # <<>>
           /\ (rq.pc = "responded" /\ rq.resp.x_accel # <<>>) =>
                   /\ shape.kind = "x-accel-redirect"
                   /\ rq.resp.status = 204
                   /\ rq.resp.x_accel = <<"/">> \o trim_matches(shape.prefix) \o <<"/">> \o path
                   /\ SingleSlashes(rq.resp.x_accel)

\* C15: for a path that is a configured prefix followed by four (or more)
\* non-empty segments, PathParts::parse returns parts from which the path can
\* be put together again: '/' prefix '/' org '/' channel '/' event_id '/'
\* suffix is the path.
PartsRoundTrip ==
    (call.fn = "parse" /\ call.returned
     /\ WellFormedPath(call.path, call.path_prefixes)) =>
        /\ call.parts.kind = "some"
        /\ <<"/">> \o prefix(call.parts) \o <<"/">> \o org(call.parts) \o <<"/">>
              \o channel(call.parts) \o <<"/">> \o event_id(call.parts) \o <<"/">>
              \o suffix(call.parts) = call.path

\* C16: PathParts::parse returns parts exactly for the paths that are '/', a
\* configured prefix as whole segments, and org, channel, event id and suffix
\* separated by single slashes; in the parts it returns, prefix, org,
\* channel, event id and suffix are non-empty and the prefix is a configured
\* one without its surrounding slashes.
ParsesExactlyFiveSegments ==
    (call.fn = "parse" /\ call.returned) =>
        /\ call.parts.kind = "some" <=> WellFormedPath(call.path, call.path_prefixes)
        /\ call.parts.kind = "some" =>
               /\ prefix(call.parts) # <<>> /\ org(call.parts) # <<>>
               /\ channel(call.parts) # <<>> /\ event_id(call.parts) # <<>>
               /\ suffix(call.parts) # <<>>
               /\ \E x \in 1..Len(call.path_prefixes) :
                      prefix(call.parts) = trim_matches(call.path_prefixes[x])

(***************************************************************************)
(* Properties of the file responder.                                       *)
(***************************************************************************)
\* the call of serve_file without conditional and Range headers
Unconditional(h) ==
    [h EXCEPT !.if_none_match = [some |-> FALSE, star |-> FALSE, items |-> <<>>],
              !.if_modified_since = [some |-> FALSE, valid |-> FALSE, secs |-> 0],
              !.range = [kind |-> "absent", ranges |-> <<>>]]

\* the response to the request of the call, had it carried neither
\* conditional nor Range headers
PlainResponse ==
    serve_file(parse(call.http.path, path_prefixes), Unconditional(call.headers), config)

\* C17: when the plain request gets 200 with ETag E and Last-Modified T, the
\* same request with If-None-Match: E gets 304, and the same request with
\* If-Modified-Since: T' gets 304 for every T' >= T, T' = T included.
RevalidationGives304 ==
    (call.fn = "serve_file" /\ call.returned /\ PlainResponse.status = 200) =>
        /\ call.headers = [Unconditional(call.headers) EXCEPT !.if_none_match =
               [some |-> TRUE, star |-> FALSE,
                items |-> <<[weak |-> FALSE, tag |-> PlainResponse.etag]>>]] =>
                   call.resp.status = 304
        /\ (\E secs \in 0..2 :
               /\ secs >= PlainResponse.last_modified
               /\ call.headers = [Unconditional(call.headers) EXCEPT !.if_modified_since =
                      [some |-> TRUE, valid |-> TRUE, secs |-> secs]]) =>
                   call.resp.status = 304

\* the directory of the requested event: downloads_path/org/channel/event_id
RequestedEventDir(pp) == downloads_path \o <<org(pp), channel(pp), event_id(pp)>>

\* the canonical file that the request path leads to
Target(pp) == canonicalize(join(downloads_path, without_prefix(pp)))

\* C18: in file mode, an allowed request whose canonical target lies outside
\* the directory of its event is answered with 400, and no byte of that file
\* is sent.
TraversalRejected ==
    (call.fn = "serve_file" /\ call.returned) =>
        LET pp == parse(call.http.path, path_prefixes)
        IN (/\ Target(pp).err = "none"
            /\ ~path_starts_with(Target(pp).path, RequestedEventDir(pp))) =>
               call.resp.status = 400 /\ call.resp.body = <<>>

\* the response to the request of the call, had it carried no Range header
WithoutRange ==
    serve_file(parse(call.http.path, path_prefixes),
               [call.headers EXCEPT !.range = [kind |-> "absent", ranges |-> <<>>]], config)

\* C19: for a file of size T and a Range header: one satisfiable range A-B
\* gives 206 with Content-Range bytes A-B/T, Content-Length B-A+1 and the
\* bytes A..B of the file; several ranges give 400; an invalid range gives
\* 400; a range that does not overlap the file gives 416; and a conditional
\* header that matches comes first and gives 304.
RangeAnswers ==
    (call.fn = "serve_file" /\ call.returned /\ PlainResponse.status = 200
     /\ call.headers.range.kind # "absent") =>
        LET range == call.headers.range
            T == PlainResponse.content_length
            file == PlainResponse.body
        IN CASE WithoutRange.status = 304 -> call.resp.status = 304
             [] WithoutRange.status # 304 /\ range.kind = "ok" /\ Len(range.ranges) = 1 ->
                    LET A == range.ranges[1].start
                        B == range.ranges[1].start + range.ranges[1].length - 1
                    IN /\ call.resp.status = 206
                       /\ call.resp.content_range = <<A, B, T>>
                       /\ call.resp.content_length = B - A + 1
                       /\ call.resp.body = [i \in 1..(B - A + 1) |-> file[A + i]]
             [] WithoutRange.status # 304 /\ range.kind = "ok" /\ Len(range.ranges) # 1 ->
                    call.resp.status = 400
             [] WithoutRange.status # 304 /\ range.kind = "InvalidRange" ->
                    call.resp.status = 400
             [] OTHER -> call.resp.status = 416

\* the bytes 1-2 of the file f were sent for a Range header, and a request
\* with a Range header and a matching If-None-Match was answered 304
RangeAnswersWitness ==
    /\ call.fn = "serve_file" /\ call.returned
    /\ \/ /\ call.resp.status = 206 /\ call.resp.content_range = <<1, 2, FileSize>>
          /\ call.resp.body = <<(<<"f", 2>>), (<<"f", 3>>)>>
       \/ /\ call.resp.status = 304 /\ call.headers.range.kind = "ok"
          /\ call.headers.if_none_match.some

(***************************************************************************)
(* Properties of the CORS headers.                                         *)
(***************************************************************************)
\* the header items that are Authorization up to case and surrounding blanks
AuthorizationItems == {"Authorization", " authorization"}

\* the full set of CORS headers for the origin
FullCorsSet(origin) ==
    {<<"Access-Control-Allow-Origin", origin>>,
     <<"Access-Control-Allow-Credentials", "true">>,
     <<"Access-Control-Allow-Methods", "GET, OPTIONS">>,
     <<"Access-Control-Allow-Headers", "Authorization">>,
     <<"Access-Control-Max-Age", "86400">>}

\* C20: a response carries CORS headers only if the request has an Origin
\* header equal to one of cors_allowed_origins and, for OPTIONS, only if
\* Access-Control-Request-Method is GET and every requested header is
\* Authorization up to case; a request without Origin gets none, and an
\* honoured preflight carries the full set with Access-Control-Max-Age 86400.
CorsOnlyForAllowedOrigins ==
    \A r \in Req :
        req[r].pc = "responded" =>
            LET h == req[r].http
            IN /\ req[r].resp.cors # {} =>
                      /\ h.origin # None /\ h.origin \in config.cors_allowed_origins
                      /\ h.method = "OPTIONS" =>
                             /\ h.acrm = "GET"
                             /\ \A i \in 1..Len(h.acrh.items) :
                                    h.acrh.items[i] \in AuthorizationItems
                      /\ req[r].resp.cors = FullCorsSet(h.origin)
               /\ h.origin = None => req[r].resp.cors = {}

\* a preflight from an allowed origin that asked for GET with the headers
\* "Authorization, authorization" was honoured
CorsOnlyForAllowedOriginsWitness ==
    \E r \in Req :
        /\ req[r].pc = "responded" /\ req[r].http.method = "OPTIONS"
        /\ req[r].http.acrh = HeaderOf(<<"Authorization", " authorization">>)
        /\ req[r].resp.status = 204
        /\ <<"Access-Control-Max-Age", "86400">> \in req[r].resp.cors


(***************************************************************************)
(* Properties of the dispatcher and of the server loop.                    *)
(***************************************************************************)
\* the handler of the request in the slot panicked (in PathParts::parse)
Panicked(rq) ==
    rq.pc = "responded" /\ rq.http.method = "GET" /\ ParsedPath[rq.http.path].kind = "panic"

\* C21: a request whose handler panics is answered with 500; the step leaves
\* the server serving, the key pool, the fetch guards, the backup-refresh
\* lock, the fetch tasks and every other request as they were, and the slot
\* free for the next request.
PanicIsContained ==
    [][\A r \in Req :
          (req'[r] # req[r] /\ Panicked(req'[r])) =>
              /\ req'[r].resp = error_response(500)
              /\ main_pc' = "serving"
              /\ UNCHANGED <<keys, permits, sem_queue, last_backup_refresh, rw, bg, task>>
              /\ \A o \in Req \ {r} : req'[o] = req[o]
              /\ \A u \in Urls : task'[<<r, u>>].pc = "none"]_vars

\* a request panicked while another one waited for a refresh, and the other
\* one was then allowed
PanicIsContainedWitness ==
    /\ Panicked(req[ReqSeq[2]])
    /\ req[ReqSeq[1]].pc = "responded" /\ req[ReqSeq[1]].allowed
    /\ req[ReqSeq[1]].resp = AllowResponse(config, req[ReqSeq[1]])


\* C22: once the shutdown signal has arrived no connection is accepted; serve
\* returns only when every connection has closed or shutdown_timeout has
\* elapsed, and it does return, whether or not the connections close.
ShutdownReturns ==
    /\ [][main_pc # "serving" =>
              \A c \in Conns : server.conn[c] = "closed" => server'.conn[c] = "closed"]_vars
    /\ [][(main_pc = "draining" /\ main_pc' = "returned") =>
              \/ \A c \in Conns : server.conn[c] = "closed"
              \/ server.since >= config.shutdown_timeout]_vars
    /\ [](main_pc = "draining" => server.since <= config.shutdown_timeout)
    /\ (main_pc = "draining" ~> main_pc = "returned")

\* serve has returned on the timeout with a request still in progress
ShutdownReturnsWitness ==
    /\ main_pc = "returned"
    /\ server.since = config.shutdown_timeout
    /\ \E c \in Conns : server.conn[c] = "busy"


(***************************************************************************)
(* Properties of verify_signature and of the key pool.                     *)
(***************************************************************************)
\* a loop of try_verify! over `tries` certainly reaches a key of a stale
\* source: no key verifies, so the loop reaches every key, or every key that
\* ends the loop is one
StaleAttempt(tries, tok) ==
    LET verifying == {c \in tries : verify(c.key.key, tok)}
    IN IF verifying = {}
       THEN \E c \in tries : is_stale(c.key.source)
       ELSE \A c \in verifying : is_stale(c.key.source)

\* C23: in none of its three passes does verify_signature try a key whose
\* source is stale when the key is tried.
NeverTriesStaleKeys ==
    [][\A r \in Req :
          /\ (req[r].pc \in {"idle", "responded"} /\ req'[r] # req[r] /\ req'[r].pc # "idle") =>
                 ~StaleAttempt(FirstPass(keys, req'[r].tok).tries, req'[r].tok)
          /\ (req[r].pc = "await_refresh" /\ req'[r].pc # "await_refresh"
              /\ req'[r].result # "Timeout") =>
                 ~StaleAttempt(SecondPass(keys, req[r].tok, req[r].stale).tries, req[r].tok)
          /\ (req[r].pc = "pass3" /\ req'[r].pc # "pass3") =>
                 ~StaleAttempt(ThirdPass(keys, req[r].tok, req[r].stale).tries, req[r].tok)]_vars


\* C24: applying a fetch result of one source to the pool, an update or the
\* drop after a failed fetch, leaves the entries and the source record of
\* every other source as they were.
UpdateLeavesOtherSources ==
    \A url \in Urls, res \in FetchResults :
        \A other \in Urls \ {url} :
            /\ SourceEntries(ApplyFetchResult(keys, url, res), other) = SourceEntries(keys, other)
            /\ SourceRecords(ApplyFetchResult(keys, url, res), other) = SourceRecords(keys, other)


\* the entries of the pool with the algorithm, as candidates without kid match
Unmatched(entries, alg) ==
    {[key |-> e, kid_match |-> FALSE] : e \in {x \in entries : x.key.algo = alg}}

\* the entries of the pool stored without a kid
KidLess(K) == {K.without_id[i] : i \in 1..Len(K.without_id)}

\* C25: keys_for(kid, alg) returns the entry stored under kid alone, flagged as
\* kid match, or AlgoMismatch if its algorithm is not alg; without such an
\* entry the kid-less entries of the algorithm; without a kid every entry of
\* the algorithm; the last two unflagged.
KeysForSelects ==
    call.fn = "keys_for" /\ call.returned =>
        LET K == call.K
            kid == call.kid
            alg == call.alg
            r == call.result
        IN CASE kid # None /\ kid \in DOMAIN K.with_id ->
                    IF K.with_id[kid].key.algo = alg
                    THEN ~r.err /\ r.cands = {[key |-> K.with_id[kid], kid_match |-> TRUE]}
                    ELSE r.err
             [] kid # None /\ kid \notin DOMAIN K.with_id ->
                    ~r.err /\ r.cands = Unmatched(KidLess(K), alg)
             [] OTHER -> ~r.err /\ r.cands = Unmatched(AllEntries(K), alg)

\* keys_for returned the entry under the kid alone from a pool that also holds
\* a kid-less entry and an entry under another kid
KeysForSelectsWitness ==
    /\ call.fn = "keys_for" /\ call.returned /\ ~call.result.err
    /\ call.kid # None /\ call.kid \in DOMAIN call.K.with_id
    /\ Cardinality(call.result.cands) = 1
    /\ KidLess(call.K) # {}
    /\ \E k \in DOMAIN call.K.with_id : k # call.kid


\* a request arrives in the slot with a token that reaches verify_signature
Verifies(r) ==
    /\ req[r].pc \in {"idle", "responded"} /\ req'[r] # req[r] /\ req'[r].pc # "idle"
    /\ ~MethodAndPath(req'[r].http, config).done
    /\ req'[r].tok # NoToken /\ DecodeHeader(req'[r].tok) = "ok"

\* the pool holds an entry under the token's kid: of a source that is not
\* stale, of the token's algorithm, and not the key that signed the token
FreshKidMatchFails(K, tok) ==
    /\ tok.kid # None /\ tok.kid \in DOMAIN K.with_id
    /\ ~is_stale(K.with_id[tok.kid].source)
    /\ algo(K.with_id[tok.kid].key) = tok.alg
    /\ ~verify(K.with_id[tok.kid].key, tok)

\* C26: a token whose kid names an entry of a source that is not stale, and
\* that this key does not verify, is rejected with InvalidSignature in the
\* fast pass: only that key is tried, no fetch task is spawned and the
\* backup-refresh lock is not touched.
KidMatchFailureIsFinal ==
    [][\A r \in Req :
          (Verifies(r) /\ FreshKidMatchFails(keys, req'[r].tok)) =>
              /\ req'[r].result = "InvalidSignature"
              /\ req'[r].pc \in {"responded", "ask"}
              /\ FirstPass(keys, req'[r].tok).tries =
                     {[key |-> keys.with_id[req'[r].tok.kid], kid_match |-> TRUE]}
              /\ UNCHANGED <<keys, task, rw, last_backup_refresh, permits, sem_queue>>]_vars

\* a token was rejected with InvalidSignature by the fresh key under its kid,
\* in a pool that no fetch is changing
KidMatchFailureIsFinalWitness ==
    \E r \in Req :
        /\ req[r].pc = "responded" /\ req[r].result = "InvalidSignature"
        /\ FreshKidMatchFails(keys, req[r].tok)
        /\ \A t \in TaskIds : task[t].pc = "none"


\* the pool holds an entry under the token's kid whose algorithm is not the
\* token's
KidAlgoDiffers(K, tok) ==
    /\ tok.kid # None /\ tok.kid \in DOMAIN K.with_id
    /\ algo(K.with_id[tok.kid].key) # tok.alg

\* C27: a token whose kid names an entry of another algorithm is rejected
\* with AlgoMismatch in the fast pass, stale source or not, with no key tried
\* and no fetch started; the passes after a refresh and after a backup
\* refresh end in AlgoMismatch too when the pool then holds such an entry.
AlgoMismatchIsFinal ==
    [][\A r \in Req :
          /\ (Verifies(r) /\ KidAlgoDiffers(keys, req'[r].tok)) =>
                 /\ req'[r].result = "AlgoMismatch"
                 /\ req'[r].pc \in {"responded", "ask"}
                 /\ FirstPass(keys, req'[r].tok).tries = {}
                 /\ UNCHANGED <<keys, task, rw, last_backup_refresh, permits, sem_queue>>
          /\ (req[r].pc = "await_refresh" /\ req'[r].pc # "await_refresh"
              /\ req'[r].result # "Timeout" /\ KidAlgoDiffers(keys, req[r].tok)) =>
                 req'[r].result = "AlgoMismatch"
          /\ (req[r].pc = "pass3" /\ req'[r].pc # "pass3"
              /\ KidAlgoDiffers(keys, req[r].tok)) =>
                 req'[r].result = "AlgoMismatch"]_vars

\* a token was rejected with AlgoMismatch by an entry of a stale source, and
\* no fetch was started
AlgoMismatchIsFinalWitness ==
    \E r \in Req :
        /\ req[r].pc = "responded" /\ req[r].result = "AlgoMismatch" /\ ~req[r].returned
        /\ KidAlgoDiffers(keys, req[r].tok)
        /\ is_stale(keys.with_id[req[r].tok.kid].source)
        /\ \A t \in TaskIds : task[t].pc = "none"


\* verify_signature is called for the request that arrives in the slot
CallsVerify(r) ==
    /\ req[r].pc \in {"idle", "responded"} /\ req'[r] # req[r] /\ req'[r].pc # "idle"
    /\ ~MethodAndPath(req'[r].http, config).done
    /\ req'[r].tok.header = "ok"

\* verify_signature of the slot's request returns in this step
VerifyEnds(r) ==
    /\ CallsVerify(r) \/ req[r].pc \in {"await_refresh", "b_try", "pass3"} \cup InBackup
    /\ req'[r].pc \in {"responded", "ask"}
    /\ req'[r].result # "Timeout"

\* the pass of verify_signature that runs in this step, if one does
PassOf(r) ==
    CASE CallsVerify(r) /\ DecodeHeader(req'[r].tok) = "ok" -> FirstPass(keys, req'[r].tok)
      [] ~CallsVerify(r) /\ req[r].pc = "await_refresh" ->
             SecondPass(keys, req[r].tok, req[r].stale)
      [] ~CallsVerify(r) /\ req[r].pc = "pass3" -> ThirdPass(keys, req[r].tok, req[r].stale)
      [] OTHER -> [out |-> "continue", tried |-> FALSE, tries |-> {}]

\* tried_some_keys when verify_signature returns in this step
TriedSomeKeys(r) == PassOf(r).tried \/ (~CallsVerify(r) /\ req[r].tried)

\* the results of decode_and_verify with which verify_signature returned Err
SignatureErrors ==
    {"UnsupportedAlg", "InvalidJwt", "AlgoMismatch", "InvalidSignature", "NoSuitableKey"}

\* verify_signature returns without a key that verified and without a failed
\* kid match: InvalidSignature if a key was tried, NoSuitableKey if none was
EndsByAttempts(r) ==
    LET tok == req'[r].tok
        tries == PassOf(r).tries
    IN (/\ \A c \in tries : ~verify(c.key.key, tok)
        /\ \A c \in tries : ~c.kid_match) =>
           req'[r].result = IF TriedSomeKeys(r) THEN "InvalidSignature" ELSE "NoSuitableKey"

\* verify_signature returns Ok only if a key of the token's algorithm that
\* the pass tried verified the signature
OkOnlyIfVerified(r) ==
    req'[r].result \notin SignatureErrors =>
        \E c \in PassOf(r).tries :
            verify(c.key.key, req'[r].tok) /\ algo(c.key.key) = req'[r].tok.alg

\* C28 as stated: whenever verify_signature returns without a verifying key
\* and without a failed kid match, the error is InvalidSignature or
\* NoSuitableKey by whether a key was tried; and Ok needs a verifying key.
SignatureVerdict ==
    [][\A r \in Req : VerifyEnds(r) => EndsByAttempts(r) /\ OkOnlyIfVerified(r)]_vars

\* verify_signature got past its head (algorithm supported, signature
\* decoded) and keys_for returned no AlgoMismatch in the pass of this step
NoOtherError(r) ==
    /\ DecodeHeader(req'[r].tok) = "ok"
    /\ PassOf(r).out # "AlgoMismatch"

\* C28, amended: the same, for the calls in which the algorithm is supported,
\* the signature decodes and no pass finds the entry under the token's kid to
\* be of another algorithm.
SignatureVerdictPastErrors ==
    [][\A r \in Req :
          VerifyEnds(r) =>
              /\ NoOtherError(r) => EndsByAttempts(r)
              /\ OkOnlyIfVerified(r)]_vars

\* a token without kid, which no key verified, ended with InvalidSignature
\* after the backup refresh
SignatureVerdictWitness ==
    \E r \in Req :
        /\ req[r].pc = "responded" /\ req[r].returned /\ req[r].try_again
        /\ req[r].tok.kid = None /\ req[r].result = "InvalidSignature"


\* C29: verify_claims answers ExpMissing iff exp is absent, else Expired iff
\* exp + skew < now, else NotValidYet iff nbf is present and nbf > now + skew,
\* else it accepts; the sums are those of the integers, for every value of the
\* unsigned type.
ClaimsVerdict ==
    call.fn = "verify_claims" /\ call.returned =>
        call.result =
            CASE ~call.exp.some -> "ExpMissing"
              [] call.exp.some /\ call.exp.v + call.skew < call.now -> "Expired"
              [] call.exp.some /\ call.exp.v + call.skew >= call.now
                 /\ call.nbf.some /\ call.nbf.v > call.now + call.skew -> "NotValidYet"
              [] OTHER -> "ok"


\* the sources about to expire: expiry at most 500 ms after now + lead time
AboutToExpire(K) ==
    {K.sources[i].url : i \in {j \in 1..Len(K.sources) :
        expiry(K.sources[j]) <= BACKGROUND_REFRESH_LEAD_TIME + BACKGROUND_REFRESH_SLACK}}

\* C30: when its sleep ends, the background loop refreshes exactly the
\* sources that expire within the lead time plus 500 ms, and no source that
\* expires later.
BackgroundRefreshesExpiring ==
    [][(bg.pc = "sleep" /\ bg'.pc = "join") => bg'.round = AboutToExpire(keys)]_vars

(***************************************************************************)
(* Properties of the failed fetch (refresh_single, keys.rs 215-222).       *)
(***************************************************************************)
\* the pool n ticks later
RECURSIVE Aged(_, _)
Aged(K, n) == IF n = 0 THEN K ELSE Aged(OlderKeys(K), n - 1)

\* C31: when the fetch of a source fails, the pool that is published holds no
\* entry of that source and exactly one record of it, whose last_fetch is the
\* instant of the failure, so that the source is not stale until
\* key_cache_duration has passed; the entries and the records of every other
\* source are as before.
FailedFetchDropsSource ==
    \A u \in Urls :
        LET out == ApplyFetchResult(keys, u, FetchError)
        IN /\ \A e \in AllEntries(out) : e.source.url # u
           /\ SourceRecords(out, u) = {KeySource(u, InstantNow)}
           /\ \A n \in 0..key_cache_duration :
                  \A src \in SourceRecords(Aged(out, n), u) : ~is_stale(src)
           /\ \A o \in Urls \ {u} :
                  /\ SourceEntries(out, o) = SourceEntries(keys, o)
                  /\ SourceRecords(out, o) = SourceRecords(keys, o)

\* the fetch of one source has just failed while the pool holds the record
\* and an entry of the other source
FailedFetchDropsSourceWitness ==
    /\ ~pool_last.res.ok
    /\ pool_last.url \in Urls
    /\ SourceRecords(keys, pool_last.url) = {KeySource(pool_last.url, InstantNow)}
    /\ \E o \in Urls \ {pool_last.url} :
           /\ SourceRecords(keys, o) # {}
           /\ \E e \in AllEntries(keys) : e.source.url = o

(***************************************************************************)
(* Properties of the startup (KeyManager::new, main).                      *)
(***************************************************************************)
\* the initial fetch of every configured source is published
InitialFetchPublished ==
    \A u \in trusted_keys : hist.applied[u].set /\ SourceRecords(keys, u) # {}

\* C32: the initial fetch of every configured source has completed and is
\* published before the background task is spawned and before the server
\* takes a request; no request is evaluated against the initial empty pool.
InitialFetchFirst ==
    /\ bg.pc # "off" => InitialFetchPublished
    /\ main_pc = "serving" => InitialFetchPublished
    /\ \A r \in Req : req[r].pc # "idle" => InitialFetchPublished /\ keys # EmptyKeys

\* a request is answered and the background task sleeps, after an initial
\* fetch that failed: the pool holds the record of the source and no key
InitialFetchFirstWitness ==
    /\ \E r \in Req : req[r].pc = "responded"
    /\ bg.pc = "sleep"
    /\ KeysLen(keys) = 0
    /\ \A u \in trusted_keys : hist.applied[u] = [set |-> TRUE, res |-> FetchError]

(***************************************************************************)
(* Properties of concurrent updates of the pool (keys.rcu).                *)
(***************************************************************************)
\* the pool holds the result published last for source u: its keys, under
\* their kids and without, and one record of u that its entries carry
HoldsResultOf(K, u) ==
    LET one == SourceEntries(ApplyFetchResult(EmptyKeys, u, hist.applied[u].res), u)
        now == SourceEntries(K, u)
    IN /\ now.with_id = one.with_id
       /\ now.without_id = one.without_id
       /\ Cardinality(SourceRecords(K, u)) = 1
       /\ now.records \subseteq SourceRecords(K, u)

\* C33: once the fetches of two different sources have both completed, the
\* published pool holds the results of both, their keys and their last_fetch
\* records; no update of one source is lost to the update of the other.
BothResultsPublished ==
    \A u, o \in trusted_keys :
        (u # o /\ hist.applied[u].set /\ hist.applied[o].set
            /\ ~Unpublished(u) /\ ~Unpublished(o))
        => HoldsResultOf(keys, u) /\ HoldsResultOf(keys, o)

(***************************************************************************)
(* Properties of a request dropped by the timeout of is_allowed.           *)
(***************************************************************************)
\* the timeout of is_allowed drops the verification of request r in this step
Cancelled(r) == req[r].pc \in VerifyAwaits /\ req'[r].pc \notin VerifyAwaits
                    /\ req'[r].result = "Timeout"

\* request r holds no guard of last_backup_refresh and waits for none
LockFreeOf(l, r) ==
    /\ l.writer # r
    /\ r \notin l.readers
    /\ \A i \in 1..Len(l.queue) : l.queue[i].who # r

\* the refresh_single calls of owner o that have not returned
Running(tk, o) == {t \in TaskIds : t[1] = o /\ tk[t].pc \notin {"none", "done"}}

\* a refresh_single call whose owner no longer awaits it
Orphan(t) == t[1] \in Req /\ task[t].pc \notin {"none", "done"} /\ ~OwnerAwaits(t[1])

\* C34: when the timeout drops a request that awaits refresh or
\* backup_refresh, the fetches it started go on, publish their results and
\* release their permits, and the guard of last_backup_refresh that the
\* request held or waited for is released; no later call waits forever for a
\* permit or for the lock.
CancelReleases ==
    /\ [][\A r \in Req : Cancelled(r) =>
              /\ LockFreeOf(rw', r)
              /\ \A t \in Running(task, r) : task'[t] = task[t]
              /\ permits' = permits /\ sem_queue' = sem_queue /\ keys' = keys]_vars
    /\ \A t \in LiveTasks :
           (Orphan(t) /\ task[t].pc = "fetch") ~> (task[t].pc = "release" /\ permits[t[2]] = 0)
    /\ \A t \in LiveTasks : Orphan(t) ~> (task[t].pc = "none")
    /\ \A u \in LiveUrls : (permits[u] = 0) ~> (permits[u] = 1)
    /\ \A t \in LiveTasks :
           (task[t].pc \in {"acquire", "wait"}) ~> (task[t].pc \in {"none", "done"})
    /\ \A r \in LiveReq : (~LockFreeOf(rw, r)) ~> LockFreeOf(rw, r)

\* the timeout dropped a request inside backup_refresh: the lock is free, the
\* fetch the request started is still pending, and the refresh_single call of
\* the background task waits for its permit
CancelReleasesWitness ==
    \E t \in LiveTasks, b \in LiveTasks :
        /\ Orphan(t) /\ task[t].why = "backup" /\ task[t].pc = "fetch"
        /\ req[t[1]].result = "Timeout"
        /\ rw = FreeLock
        /\ b[1] = "bg" /\ b[2] = t[2] /\ task[b].pc = "wait"

(***************************************************************************)
(* Termination of refresh_single, refresh and backup_refresh.              *)
(***************************************************************************)
\* the steps of refresh_single in which the call holds the permit of its URL
HoldsPermit == {"fetch", "cas", "rcu", "release", "granted"}

OneRecordPerSource ==
    /\ main_pc = "serving" =>
           /\ \A u \in trusted_keys : Cardinality(SourceRecords(keys, u)) = 1
           /\ Len(keys.sources) = Cardinality(trusted_keys)
           /\ \A i \in 1..Len(keys.sources) : keys.sources[i].url \in trusted_keys
           /\ \A e \in AllEntries(keys) : e.source.url \in trusted_keys
    /\ bg.pc # "panicked"
    /\ bg.round \subseteq trusted_keys
    /\ \A t \in TaskIds : task[t].pc # "none" => t[2] \in trusted_keys

\* the background loop sleeps; the fetches of the two sources were published
\* at different times, and the one published last for one of them failed
OneRecordPerSourceWitness ==
    /\ bg.pc = "sleep"
    /\ Cardinality(trusted_keys) = 2
    /\ \E u \in trusted_keys : hist.applied[u].res = FetchError
    /\ \E u \in trusted_keys : hist.applied[u].res # FetchError
    /\ \E i, j \in 1..Len(keys.sources) :
           keys.sources[i].last_fetch < keys.sources[j].last_fetch
              /\ keys.sources[j].last_fetch < BACKGROUND_REFRESH_LEAD_TIME

(***************************************************************************)
(* Requests that are decided without a key refresh.                        *)
(***************************************************************************)
\* a request arrives in slot r in this step
Arrives(r) == req[r].pc \in {"idle", "responded"} /\ req'[r] # req[r] /\ req'[r].pc # "idle"

\* a key of a source that is not stale verifies the token
FreshKeyVerifies(K, tok) ==
    \E e \in AllEntries(K) :
        /\ ~is_stale(e.source)
        /\ algo(e.key) = tok.alg
        /\ verify(e.key, tok)
        /\ tok.kid # None => tok.kid \in DOMAIN K.with_id /\ K.with_id[tok.kid] = e

\* the token is absent, is not three base64url segments, has a header that is
\* not JSON, names an unsupported alg or has an undecodable signature
Undecodable(tok) ==
    \/ tok = NoToken
    \/ tok.header \in {"not_three_parts", "bad_base64", "bad_json"}
    \/ tok.alg \notin Algos
    \/ tok.sig = "bad_base64"

\* C37: a request without a token, with a token that cannot be decoded up to
\* its signature, or with a token that a key of a source that is not stale
\* verifies, is decided at once: it starts no refresh_single call and no fetch
\* and leaves the pool, the permits, the lock and last_backup_refresh as
\* they are.
QuickRequestsFetchNothing ==
    [][\A r \in Req :
          (Arrives(r) /\ ~MethodAndPath(req'[r].http, config).done
              /\ (Undecodable(req'[r].tok) \/ FreshKeyVerifies(keys, req'[r].tok)))
          => /\ req'[r].pc \in {"responded", "ask"}
             /\ task' = task /\ keys' = keys /\ permits' = permits
             /\ sem_queue' = sem_queue /\ rw' = rw
             /\ last_backup_refresh' = last_backup_refresh]_vars

\* a token with an undecodable signature has been denied while the keys of
\* the source are stale and the last backup refresh is long ago
QuickRequestsFetchNothingWitness ==
    \E r \in Req :
        /\ req[r].pc = "responded"
        /\ req[r].tok.sig = "bad_base64"
        /\ req[r].result = "InvalidJwt"
        /\ \A i \in 1..Len(keys.sources) : is_stale(keys.sources[i])
        /\ ~TooRecent
        /\ \A t \in TaskIds : task[t].pc = "none"

(***************************************************************************)
(* The order of decode_and_verify (decode.rs 35-61).                       *)
(***************************************************************************)
\* one of the served keys of the token's algorithm verifies its signature
SignedByServedKey(tok) == \E key \in ServedKeys : algo(key) = tok.alg /\ verify(key, tok)

\* the errors of verify_signature after its head
SignatureStageErrors == {"AlgoMismatch", "InvalidSignature", "NoSuitableKey"}

\* C38: decode_and_verify reads the payload only after the signature is
\* verified: a token that decodes up to its signature and that no served key
\* verifies ends with an error of verify_signature (or is dropped by the
\* timeout), never with ExpMissing, Expired, NotValidYet or an error of the
\* payload; and the verification ends with Ok only for a token with a
\* verified signature, a payload that decodes and valid time claims.
PayloadAfterSignature ==
    \A r \in Req :
        (req[r].pc \in {"responded", "ask"} /\ req[r].tok # NoToken) =>
            /\ (DecodeHeader(req[r].tok) = "ok" /\ ~SignedByServedKey(req[r].tok))
                   => req[r].result \in SignatureStageErrors \cup {"Timeout"}
            /\ req[r].result = "ok"
                   => /\ DecodeHeader(req[r].tok) = "ok"
                      /\ SignedByServedKey(req[r].tok)
                      /\ req[r].tok.payload = "ok" /\ req[r].tok.time = "ok"
            /\ req[r].allowed => req[r].result = "ok"

\* a token that no served key verifies was rejected with InvalidSignature
\* although its payload is not JSON
PayloadAfterSignatureWitness ==
    \E r \in Req :
        /\ req[r].pc = "responded"
        /\ req[r].result = "InvalidSignature"
        /\ ~SignedByServedKey(req[r].tok)
        /\ req[r].tok.payload = "bad_json"
        /\ req[r].tok.kid # None

(***************************************************************************)
(* The sleep of the background loop.                                       *)
(***************************************************************************)
\* the loop finds its next expiry and goes to sleep in this step
BgSleeps == bg.pc = "top" /\ bg'.pc = "sleep"

\* the sleep of the loop ends and a refresh round begins in this step
BgRoundBegins == bg.pc = "sleep" /\ bg'.pc = "join"

\* the time since the last fetch of the source fetched longest ago
OldestFetch(K) ==
    CHOOSE a \in {K.sources[i].last_fetch : i \in 1..Len(K.sources)} :
        \A i \in 1..Len(K.sources) : a >= K.sources[i].last_fetch

StartupWindow == hist.up < BACKUP_REFRESH_RATE_LIMIT

\* the request calls backup_refresh in this step
BackupCalled(r) == req[r].pc = "b_try" /\ req'[r].pc # "b_try"

\* the call of backup_refresh of the request returns in this step
BackupReturned(r) == req[r].pc \in InBackup /\ req'[r].pc \notin InBackup

\* no fetch is started, nothing is published and the timestamp stays
NothingFetched ==
    /\ task' = task /\ keys' = keys /\ permits' = permits
    /\ last_backup_refresh' = last_backup_refresh

\* the response of the request denies access
IsDenied(rq) == rq.pc = "responded" /\ ~rq.allowed /\ rq.resp = DenyResponse(config)

\* the token is well-formed, every source is in the pool's records and not
\* stale, and no key in the pool has the token's algorithm and verifies it
KeyNotInPool(K, tok) ==
    /\ tok # NoToken /\ DecodeHeader(tok) = "ok"
    /\ \A u \in trusted_keys : \E i \in 1..Len(K.sources) : K.sources[i].url = u
    /\ \A i \in 1..Len(K.sources) : ~is_stale(K.sources[i])
    /\ \A k \in AllEntries(K) :
           ~is_stale(k.source) /\ ~(algo(k.key) = tok.alg /\ verify(k.key, tok))

\* C40: the backup-refresh timestamp starts as the instant of construction,
\* so every backup_refresh call made less than the rate limit (15 s) after
\* that instant finds the timestamp too recent and returns false, with no
\* fetch started; a request that arrives in that window with a token signed
\* with a key that the pool of non-stale sources does not hold is denied at
\* once.
StartupBackupRefused ==
    /\ [](StartupWindow =>
             /\ last_backup_refresh = hist.up
             /\ \A t \in TaskIds : task[t].why # "backup"
             /\ \A r \in Req : req[r].pc \in InBackup => req[r].pc \in {"b_recent"})
    /\ [][\A r \in Req :
             /\ StartupWindow /\ BackupCalled(r) =>
                    req'[r].pc = "b_recent" /\ NothingFetched
             /\ StartupWindow /\ BackupReturned(r) =>
                    /\ req'[r].returned /\ ~req'[r].try_again
                    /\ IsDenied(req'[r])
                    /\ NothingFetched
             /\ StartupWindow /\ Arrives(r) /\ ~MethodAndPath(req'[r].http, config).done
                /\ KeyNotInPool(keys, req'[r].tok) =>
                    \/ req'[r].pc = "b_try" /\ req'[r].stale = {} /\ NothingFetched
                    \/ IsDenied(req'[r]) /\ NothingFetched]_vars

\* in the window, with the failed initial fetch published and the source not
\* stale, a request with a token that the source's key would verify has
\* called backup_refresh, got false and was denied
StartupBackupRefusedWitness ==
    /\ StartupWindow /\ hist.up > 0
    /\ AllEntries(keys) = {}
    /\ \E r \in Req :
           /\ req[r].tok = GoodToken
           /\ req[r].returned /\ ~req[r].try_again
           /\ req[r].result = "NoSuitableKey"
           /\ IsDenied(req[r])

====
